---- MODULE Spec2Model ----
(***************************************************************************)
(* CRD upgrade safety preflight of operator-controller                     *)
(* (internal/operator-controller/rukpak/preflights/crdupgradesafety).      *)
(*                                                                         *)
(* A Go string is modelled as the sequence of its characters, each         *)
(* character a one-character TLA+ string, so that strings.ToLower,         *)
(* strings.Contains, strings.HasPrefix and the regular expressions act on  *)
(* the text the way the Go code does.                                      *)
(***************************************************************************)
EXTENDS Integers, Sequences, FiniteSets, TLC

VARIABLES
    pc,             \* position of runPreflight
    entry,          \* the method runPreflight was entered through
    rel,            \* the release handed to Install / Upgrade
    relObjects,     \* objects parsed from rel.Manifest
    idx,            \* index of the manifest object the loop is at
    oldCrd,         \* result of crdClient.Get for the current object
    validateErrors, \* errors collected so far
    ret,            \* the error runPreflight returned
    getCalls,       \* history: indices of the objects crdClient.Get was called for
    runCalls,       \* history: indices of the objects runner.Run was called for
    errStr,         \* input of categorizeValidationError / determineErrorSeverity
    context,        \* input of categorizeValidationError
    message,        \* output of categorizeValidationError
    severity,       \* output of determineErrorSeverity
    preflightSummary, \* a preflightMessageSummary under test
    addCalls,       \* history: the add calls made on preflightSummary
    rendered,       \* history: the texts GenerateMessage returned since the last add call
    configCall,     \* the call made into the bundle configuration code, with its arguments
    config,         \* the *Config that call returned
    configErr       \* the error that call returned

vars == <<pc, entry, rel, relObjects, idx, oldCrd, validateErrors, ret, getCalls, runCalls, errStr, context, message, severity, preflightSummary, addCalls, rendered, configCall, config, configErr>>

-----------------------------------------------------------------------------
(* Strings                                                                  *)

UpperLetters == <<"A","B","C","D","E","F","G","H","I","J","K","L","M","N","O","P","Q","R","S","T","U","V","W","X","Y","Z">>

LowerLetters == <<"a","b","c","d","e","f","g","h","i","j","k","l","m","n","o","p","q","r","s","t","u","v","w","x","y","z">>

Digits == <<"0","1","2","3","4","5","6","7","8","9">>

\* the small letter of every ASCII capital
LowerOf == [c \in {UpperLetters[i] : i \in 1..Len(UpperLetters)} |->
               LowerLetters[CHOOSE i \in 1..Len(UpperLetters) : UpperLetters[i] = c]]

\* unicode.ToLower on one character: ASCII capitals map to their small letter
ToLowerChar(c) == IF c \in DOMAIN LowerOf THEN LowerOf[c] ELSE c

\* strings.ToLower
ToLower(s) == <<>> \o [i \in 1..Len(s) |-> ToLowerChar(s[i])]

\* s[i:] starts with lit (i is 1-based)
LitAt(s, i, lit) ==
    /\ i >= 1
    /\ i + Len(lit) - 1 <= Len(s)
    /\ \A j \in 1..Len(lit) : s[i + j - 1] = lit[j]

\* strings.Contains
Contains(s, substr) == \E i \in 1..(Len(s) - Len(substr) + 1) : LitAt(s, i, substr)

\* strings.HasPrefix
HasPrefix(s, prefix) == LitAt(s, 1, prefix)

RECURSIVE Join(_, _)
\* strings.Join
Join(elems, sep) ==
    IF Len(elems) = 0 THEN <<>>
    ELSE IF Len(elems) = 1 THEN elems[1]
    ELSE elems[1] \o sep \o Join(Tail(elems), sep)

RECURSIVE Itoa(_)
\* fmt's %d of a non-negative int
Itoa(n) == IF n < 10 THEN <<Digits[n + 1]>> ELSE Itoa(n \div 10) \o <<Digits[(n % 10) + 1]>>

\* fmt's %q of a string: Go-quoted, with \" and \\ escaped
Quote(s) ==
    LET esc(c) == IF c = "\"" \/ c = "\\" THEN <<"\\", c>> ELSE <<c>>
        body[i \in 0..Len(s)] == IF i = 0 THEN <<>> ELSE body[i - 1] \o esc(s[i])
    IN  <<"\"">> \o body[Len(s)] \o <<"\"">>

-----------------------------------------------------------------------------
(* Regular expressions (Go regexp: leftmost match, greedy repetition)       *)

\* regexp \s
IsSpace(c) == c \in {" ", "\t", "\n", "\f", "\r"}

NotSpace(c) == ~IsSpace(c)

NotBlank(c) == c # " "

NotApostrophe(c) == c # "'"

NotQuote(c) == c # "\""

NotBracket(c) == c # "]"

NotQuoteNorBlank(c) == c # "\"" /\ c # " "

\* last index of the longest run of characters satisfying In that starts at i
\* (i - 1 when the run is empty): what a greedy [class]* consumes
RunEnd(s, i, In(_)) ==
    CHOOSE e \in (i - 1)..Len(s) :
        /\ \A j \in i..e : In(s[j])
        /\ (e = Len(s) \/ ~In(s[e + 1]))

\* Find with Try(s, i) the submatch at start i or <<>>: the leftmost start wins
FindStringSubmatch(s, Try(_, _)) ==
    LET starts == {i \in 1..Len(s) : Try(s, i) # <<>>}
    IN  IF starts = {} THEN <<>>
        ELSE Try(s, CHOOSE i \in starts : \A k \in starts : i <= k)

\* head(group1)mid(group2)tail at start i, where the groups are greedy runs of
\* In characters of at least min characters; tail may be empty
TwoGroupsAt(s, i, head, mid, tail, In(_), min) ==
    IF ~LitAt(s, i, head) THEN <<>>
    ELSE LET b1 == i + Len(head)
             e1 == RunEnd(s, b1, In)
         IN  IF e1 - b1 + 1 < min \/ ~LitAt(s, e1 + 1, mid) THEN <<>>
             ELSE LET b2 == e1 + 1 + Len(mid)
                      e2 == RunEnd(s, b2, In)
                  IN  IF e2 - b2 + 1 < min \/ ~LitAt(s, e2 + 1, tail) THEN <<>>
                      ELSE <<SubSeq(s, i, e2 + Len(tail)), SubSeq(s, b1, e1), SubSeq(s, b2, e2)>>

\* head.*rest at start i, where rest is matched by Try: the greedy .* stays on
\* the line and gives way to the last place where rest matches
HeadAnyRestAt(s, i, head, Try(_, _)) ==
    IF ~LitAt(s, i, head) THEN <<>>
    ELSE LET b  == i + Len(head)
             qs == {q \in b..Len(s) : /\ \A j \in b..(q - 1) : s[j] # "\n"
                                      /\ Try(s, q) # <<>>}
         IN  IF qs = {} THEN <<>>
             ELSE LET q == CHOOSE x \in qs : \A y \in qs : y <= x
                      m == Try(s, q)
                  IN  <<SubSeq(s, i, q - 1) \o m[1], m[2], m[3]>>

\* the literal parts of the seven patterns
TypeHead == <<"t","y","p","e"," ","c","h","a","n","g","e","d"," ","f","r","o","m"," ">>

To == <<" ","t","o"," ">>

DefaultHead == <<"d","e","f","a","u","l","t"," ","v","a","l","u","e"," ","c","h","a","n","g","e","d"," ","f","r","o","m"," ","'">>

DefaultMid == <<"'"," ","t","o"," ","'">>

Apostrophe == <<"'">>

EnumHead == <<"e","n","u","m"," ","c","o","n","s","t","r","a","i","n","t"," ","t","i","g","h","t","e","n","e","d">>

EnumFrom == <<" ","f","r","o","m"," ","[">>

EnumMid == <<"]"," ","t","o"," ","[">>

Bracket == <<"]">>

ScopeHead == <<"s","c","o","p","e"," ","c","h","a","n","g","e","d"," ","f","r","o","m"," ","\"">>

ScopeMid == <<"\""," ","t","o"," ","\"">>

DoubleQuote == <<"\"">>

MinHead == <<"m","i","n","i","m","u","m"," ","v","a","l","u","e">>

IncreasedFrom == <<" ","i","n","c","r","e","a","s","e","d"," ","f","r","o","m"," ">>

MaxHead == <<"m","a","x","i","m","u","m"," ","v","a","l","u","e">>

DecreasedFrom == <<" ","d","e","c","r","e","a","s","e","d"," ","f","r","o","m"," ">>

StoredHead == <<"s","t","o","r","e","d"," ","v","e","r","s","i","o","n"," ">>

Removed == <<" ","r","e","m","o","v","e","d">>

\* reFromToType: type changed from (\S+) to (\S+)
reFromToTypeAt(s, i) == TwoGroupsAt(s, i, TypeHead, To, <<>>, NotSpace, 1)

reFromToType(s) == FindStringSubmatch(s, reFromToTypeAt)

\* reDefaultChange: default value changed from '([^']*)' to '([^']*)'
reDefaultChangeAt(s, i) == TwoGroupsAt(s, i, DefaultHead, DefaultMid, Apostrophe, NotApostrophe, 0)

reDefaultChange(s) == FindStringSubmatch(s, reDefaultChangeAt)

\* reEnumTight: enum constraint tightened.* from \[([^\]]*)\] to \[([^\]]*)\]
reEnumTightRest(s, i) == TwoGroupsAt(s, i, EnumFrom, EnumMid, Bracket, NotBracket, 0)

reEnumTightAt(s, i) == HeadAnyRestAt(s, i, EnumHead, reEnumTightRest)

reEnumTight(s) == FindStringSubmatch(s, reEnumTightAt)

\* reScopeChange: scope changed from "([^"]+)" to "([^"]+)"
reScopeChangeAt(s, i) == TwoGroupsAt(s, i, ScopeHead, ScopeMid, DoubleQuote, NotQuote, 1)

reScopeChange(s) == FindStringSubmatch(s, reScopeChangeAt)

\* reMinIncreased: minimum value.* increased from ([^ ]+) to ([^ ]+)
reMinIncreasedRest(s, i) == TwoGroupsAt(s, i, IncreasedFrom, To, <<>>, NotBlank, 1)

reMinIncreasedAt(s, i) == HeadAnyRestAt(s, i, MinHead, reMinIncreasedRest)

reMinIncreased(s) == FindStringSubmatch(s, reMinIncreasedAt)

\* reMaxDecreased: maximum value.* decreased from ([^ ]+) to ([^ ]+)
reMaxDecreasedRest(s, i) == TwoGroupsAt(s, i, DecreasedFrom, To, <<>>, NotBlank, 1)

reMaxDecreasedAt(s, i) == HeadAnyRestAt(s, i, MaxHead, reMaxDecreasedRest)

reMaxDecreased(s) == FindStringSubmatch(s, reMaxDecreasedAt)

\* reStoredRemoved: stored version "?([^" ]+)"? removed
reStoredRemovedAt(s, i) ==
    IF ~LitAt(s, i, StoredHead) THEN <<>>
    ELSE LET q  == i + Len(StoredHead)
             b  == IF LitAt(s, q, DoubleQuote) THEN q + 1 ELSE q
             e  == RunEnd(s, b, NotQuoteNorBlank)
             r  == IF LitAt(s, e + 1, DoubleQuote) THEN e + 2 ELSE e + 1
         IN  IF e < b \/ ~LitAt(s, r, Removed) THEN <<>>
             ELSE <<SubSeq(s, i, r + Len(Removed) - 1), SubSeq(s, b, e)>>

reStoredRemoved(s) == FindStringSubmatch(s, reStoredRemovedAt)

\* arrow
arrow(from, to) == from \o <<" ","→"," ">> \o to

-----------------------------------------------------------------------------
(* preflightMessageSummary                                                  *)

\* mutant of newPreflightSummary: the check name is left empty
newPreflightSummaryUnnamed == [CheckName |-> <<>>, Issues |-> <<>>, CriticalCount |-> 0, BreakingCount |-> 0]

newPreflightSummary == [CheckName |-> <<"C","R","D"," ","U","p","g","r","a","d","e"," ","S","a","f","e","t","y">>, Issues |-> <<>>, CriticalCount |-> 0, BreakingCount |-> 0]

\* mutant of AddCriticalIssue: a critical issue goes to the front of the list
AddCriticalIssueInFront(s, issue) == [s EXCEPT !.CriticalCount = @ + 1, !.Issues = <<issue>> \o @]

AddCriticalIssue(s, issue) == [s EXCEPT !.CriticalCount = @ + 1, !.Issues = Append(@, issue)]

AddBreakingIssue(s, issue) == [s EXCEPT !.BreakingCount = @ + 1, !.Issues = Append(@, issue)]

\* mutant of AddIssue: a minor issue is counted as a breaking one
AddIssueCountsBreaking(s, issue) == [s EXCEPT !.BreakingCount = @ + 1, !.Issues = Append(@, issue)]

\* non-blocking (minor): listed, no count changed
AddIssue(s, issue) == [s EXCEPT !.Issues = Append(@, issue)]

\* the "- " bullet of every issue, in the order of the slice
Bullets(issues) == [i \in 1..Len(issues) |-> <<"-"," ">> \o issues[i]]

GenerateMessage(s) ==
    LET total == s.CriticalCount + s.BreakingCount
        parts == (IF s.CriticalCount > 0 THEN <<Itoa(s.CriticalCount) \o <<" ","c","r","i","t","i","c","a","l">>>> ELSE <<>>)
                 \o (IF s.BreakingCount > 0 THEN <<Itoa(s.BreakingCount) \o <<" ","b","r","e","a","k","i","n","g">>>> ELSE <<>>)
        header0 == s.CheckName \o <<"\n","T","o","t","a","l",":"," ">> \o Itoa(total)
        header == IF Len(parts) > 0 THEN header0 \o <<" ","(">> \o Join(parts, <<","," ">>) \o <<")">> ELSE header0
    IN  IF total = 0 THEN s.CheckName \o <<"\n","T","o","t","a","l",":"," ","0","\n","I","s","s","u","e","s",":"," ","n","o","n","e">>
        ELSE header \o <<"\n","I","s","s","u","e","s",":","\n">> \o Join(Bullets(s.Issues), <<"\n">>)

-----------------------------------------------------------------------------
(* Categorization                                                           *)

\* the six bound keywords of the numeric-constraint rules
HasBoundKeyword(lowerErr) ==
    \/ Contains(lowerErr, <<"m","i","n","i","m","u","m">>) \/ Contains(lowerErr, <<"m","a","x","i","m","u","m">>)
    \/ Contains(lowerErr, <<"m","i","n","l","e","n","g","t","h">>) \/ Contains(lowerErr, <<"m","a","x","l","e","n","g","t","h">>)
    \/ Contains(lowerErr, <<"m","i","n","i","t","e","m","s">>) \/ Contains(lowerErr, <<"m","a","x","i","t","e","m","s">>)

\* the critical rules of determineErrorSeverity
CriticalRule(lowerErr) ==
    \/ Contains(lowerErr, <<"e","x","i","s","t","i","n","g"," ","f","i","e","l","d">>) /\ Contains(lowerErr, <<"r","e","m","o","v","e","d">>)
    \/ Contains(lowerErr, <<"r","e","q","u","i","r","e","d">>) /\ (Contains(lowerErr, <<"a","d","d","e","d">>) \/ Contains(lowerErr, <<"n","e","w">>))
    \/ Contains(lowerErr, <<"s","t","o","r","e","d"," ","v","e","r","s","i","o","n">>) /\ Contains(lowerErr, <<"r","e","m","o","v","e","d">>)
    \/ Contains(lowerErr, <<"s","e","r","v","e","d"," ","v","e","r","s","i","o","n">>) /\ Contains(lowerErr, <<"r","e","m","o","v","e","d">>)
    \/ Contains(lowerErr, <<"s","c","o","p","e"," ","c","h","a","n","g","e","d">>)

\* the breaking rules of determineErrorSeverity
BreakingRule(lowerErr) ==
    \/ Contains(lowerErr, <<"t","y","p","e"," ","c","h","a","n","g","e","d">>) \/ (Contains(lowerErr, <<"t","y","p","e">>) /\ Contains(lowerErr, <<"c","h","a","n","g","e","d">>))
    \/ Contains(lowerErr, <<"e","n","u","m"," ","c","o","n","s","t","r","a","i","n","t"," ","t","i","g","h","t","e","n","e","d">>)
    \/ Contains(lowerErr, <<"e","n","u","m">>) /\ (Contains(lowerErr, <<"r","e","m","o","v","e","d">>) \/ Contains(lowerErr, <<"r","e","s","t","r","i","c","t","e","d">>))
    \/ Contains(lowerErr, <<"d","e","f","a","u","l","t"," ","v","a","l","u","e"," ","c","h","a","n","g","e","d">>)
    \/ Contains(lowerErr, <<"d","e","f","a","u","l","t">>) /\ (Contains(lowerErr, <<"c","h","a","n","g","e","d">>) \/ Contains(lowerErr, <<"a","d","d","e","d">>) \/ Contains(lowerErr, <<"r","e","m","o","v","e","d">>))
    \/ HasBoundKeyword(lowerErr) /\ (Contains(lowerErr, <<"i","n","c","r","e","a","s","e","d">>) \/ Contains(lowerErr, <<"d","e","c","r","e","a","s","e","d">>) \/ Contains(lowerErr, <<"a","d","d","e","d">>))

\* mutant of determineErrorSeverity: the breaking rules are tried before the critical ones
determineBreakingFirst(e) ==
    LET lowerErr == ToLower(e)
    IN  IF BreakingRule(lowerErr) THEN "breaking"
        ELSE IF CriticalRule(lowerErr) THEN "critical"
        ELSE "minor"

determineErrorSeverity(e) ==
    LET lowerErr == ToLower(e)
    IN  IF Contains(lowerErr, <<"e","x","i","s","t","i","n","g"," ","f","i","e","l","d">>) /\ Contains(lowerErr, <<"r","e","m","o","v","e","d">>)
            THEN "critical"
        ELSE IF Contains(lowerErr, <<"r","e","q","u","i","r","e","d">>) /\ (Contains(lowerErr, <<"a","d","d","e","d">>) \/ Contains(lowerErr, <<"n","e","w">>))
            THEN "critical"
        ELSE IF Contains(lowerErr, <<"s","t","o","r","e","d"," ","v","e","r","s","i","o","n">>) /\ Contains(lowerErr, <<"r","e","m","o","v","e","d">>)
            THEN "critical"
        ELSE IF Contains(lowerErr, <<"s","e","r","v","e","d"," ","v","e","r","s","i","o","n">>) /\ Contains(lowerErr, <<"r","e","m","o","v","e","d">>)
            THEN "critical"
        ELSE IF Contains(lowerErr, <<"s","c","o","p","e"," ","c","h","a","n","g","e","d">>)
            THEN "critical"
        ELSE IF Contains(lowerErr, <<"t","y","p","e"," ","c","h","a","n","g","e","d">>) \/ (Contains(lowerErr, <<"t","y","p","e">>) /\ Contains(lowerErr, <<"c","h","a","n","g","e","d">>))
            THEN "breaking"
        ELSE IF Contains(lowerErr, <<"e","n","u","m"," ","c","o","n","s","t","r","a","i","n","t"," ","t","i","g","h","t","e","n","e","d">>) \/ (Contains(lowerErr, <<"e","n","u","m">>) /\ (Contains(lowerErr, <<"r","e","m","o","v","e","d">>) \/ Contains(lowerErr, <<"r","e","s","t","r","i","c","t","e","d">>)))
            THEN "breaking"
        ELSE IF Contains(lowerErr, <<"d","e","f","a","u","l","t"," ","v","a","l","u","e"," ","c","h","a","n","g","e","d">>) \/ (Contains(lowerErr, <<"d","e","f","a","u","l","t">>) /\ (Contains(lowerErr, <<"c","h","a","n","g","e","d">>) \/ Contains(lowerErr, <<"a","d","d","e","d">>) \/ Contains(lowerErr, <<"r","e","m","o","v","e","d">>)))
            THEN "breaking"
        ELSE IF HasBoundKeyword(lowerErr) /\ (Contains(lowerErr, <<"i","n","c","r","e","a","s","e","d">>) \/ Contains(lowerErr, <<"d","e","c","r","e","a","s","e","d">>) \/ Contains(lowerErr, <<"a","d","d","e","d">>))
            THEN "breaking"
        ELSE "minor"

\* mutant of Msg: the context is left out of the message
MsgNoContext(label, ctx, text) == label \o <<":"," ">> \o text

\* fmt.Sprintf("<label> (%s): <text>", context)
Msg(label, ctx, text) == label \o <<" ","(">> \o ctx \o <<")",":"," ">> \o text

LabelVersion == <<"V","e","r","s","i","o","n"," ","r","e","m","o","v","a","l","/","s","c","o","p","e"," ","c","h","a","n","g","e">>

LabelRequired == <<"R","e","q","u","i","r","e","d"," ","f","i","e","l","d"," ","a","d","d","e","d">>

LabelRemoval == <<"F","i","e","l","d"," ","r","e","m","o","v","a","l"," ","d","e","t","e","c","t","e","d">>

LabelEnumTight == <<"E","n","u","m"," ","r","e","s","t","r","i","c","t","i","o","n"," ","t","i","g","h","t","e","n","e","d">>

LabelEnumAdded == <<"E","n","u","m"," ","r","e","s","t","r","i","c","t","i","o","n"," ","a","d","d","e","d">>

LabelDefaultChanged == <<"D","e","f","a","u","l","t"," ","c","h","a","n","g","e","d">>

LabelDefaultAdded == <<"D","e","f","a","u","l","t"," ","a","d","d","e","d">>

LabelDefaultRemoved == <<"D","e","f","a","u","l","t"," ","r","e","m","o","v","e","d">>

LabelType == <<"T","y","p","e"," ","c","h","a","n","g","e","d">>

LabelMin == <<"M","i","n","i","m","u","m"," ","i","n","c","r","e","a","s","e","d">>

LabelMax == <<"M","a","x","i","m","u","m"," ","d","e","c","r","e","a","s","e","d">>

LabelConstraint == <<"C","o","n","s","t","r","a","i","n","t"," ","a","d","d","e","d">>

LabelGeneric == <<"B","a","c","k","w","a","r","d","s","-","c","o","m","p","a","t","i","b","i","l","i","t","y"," ","i","s","s","u","e">>

TextRequired == <<"M","a","k","e"," ","t","h","e"," ","n","e","w"," ","f","i","e","l","d"," ","o","p","t","i","o","n","a","l"," ","o","r"," ","p","r","o","v","i","d","e"," ","a"," ","d","e","f","a","u","l","t","."," ","R","e","q","u","i","r","e","d","-","f","i","e","l","d"," ","a","d","d","i","t","i","o","n","s"," ","b","r","e","a","k"," ","e","x","i","s","t","i","n","g"," ","C","R","s"," ","a","n","d"," ","a","r","e"," ","r","e","j","e","c","t","e","d"," ","b","y"," ","O","L","M","'","s"," ","s","a","f","e","t","y"," ","c","h","e","c","k",".">>

TextRemoval == <<"T","h","e"," ","O","L","M"," ","p","r","e","f","l","i","g","h","t"," ","b","l","o","c","k","e","d"," ","o","u","r"," ","C","R","D"," ","u","p","d","a","t","e"," ","b","e","c","a","u","s","e"," ","i","t"," ","i","s","n","'","t"," ","b","a","c","k","w","a","r","d","s","-","c","o","m","p","a","t","i","b","l","e","."," ","P","l","e","a","s","e"," ","r","e","w","o","r","k"," ","t","h","e"," ","c","h","a","n","g","e"," ","t","o"," ","b","e"," ","a","d","d","i","t","i","v","e",":"," ","a","v","o","i","d"," ","r","e","m","o","v","i","n","g"," ","f","i","e","l","d","s",".">>

TextEnumTight == <<"."," ","A","v","o","i","d"," ","n","a","r","r","o","w","i","n","g"," ","e","n","u","m","s",";"," ","o","n","l","y"," ","a","d","d","i","t","i","v","e"," ","r","e","l","a","x","a","t","i","o","n","s"," ","a","r","e"," ","a","l","l","o","w","e","d",".">>

TextEnumAdded == <<"A","v","o","i","d"," ","a","d","d","i","n","g"," ","n","e","w"," ","e","n","u","m"," ","r","e","s","t","r","i","c","t","i","o","n","s"," ","o","r"," ","r","e","m","o","v","i","n","g"," ","e","x","i","s","t","i","n","g"," ","e","n","u","m"," ","v","a","l","u","e","s",".">>

TextDefaultChanged == <<"."," ","K","e","e","p"," ","t","h","e"," ","o","l","d"," ","d","e","f","a","u","l","t",","," ","o","r"," ","i","n","t","r","o","d","u","c","e"," ","t","h","e"," ","n","e","w"," ","b","e","h","a","v","i","o","r"," ","v","i","a"," ","a"," ","n","e","w"," ","f","i","e","l","d"," ","o","r"," ","v","e","r","s","i","o","n",".">>

TextDefaultAdded == <<"A","d","d","i","n","g"," ","a"," ","n","e","w"," ","d","e","f","a","u","l","t"," ","m","a","y"," ","c","h","a","n","g","e"," ","e","x","i","s","t","i","n","g"," ","b","e","h","a","v","i","o","r","."," ","P","r","e","f","e","r"," ","i","n","t","r","o","d","u","c","i","n","g"," ","a"," ","n","e","w"," ","f","i","e","l","d"," ","o","r"," ","v","e","r","s","i","o","n",".">>

TextDefaultRemoved == <<"R","e","m","o","v","i","n","g"," ","a"," ","d","e","f","a","u","l","t"," ","m","a","y"," ","b","r","e","a","k"," ","e","x","i","s","t","i","n","g"," ","b","e","h","a","v","i","o","r","."," ","K","e","e","p"," ","t","h","e"," ","e","x","i","s","t","i","n","g"," ","d","e","f","a","u","l","t"," ","o","r"," ","i","n","t","r","o","d","u","c","e"," ","a"," ","n","e","w"," ","f","i","e","l","d",".">>

TextType == <<"T","h","e"," ","O","L","M"," ","p","r","e","f","l","i","g","h","t"," ","b","l","o","c","k","e","d"," ","o","u","r"," ","C","R","D"," ","u","p","d","a","t","e"," ","b","e","c","a","u","s","e"," ","i","t"," ","i","s","n","'","t"," ","b","a","c","k","w","a","r","d","s","-","c","o","m","p","a","t","i","b","l","e","."," ","D","o","n","'","t"," ","c","h","a","n","g","e"," ","t","y","p","e","s"," ","i","n"," ","p","l","a","c","e"," ","-"," ","a","d","d"," ","a"," ","n","e","w"," ","C","R","D"," ","v","e","r","s","i","o","n"," ","i","n","s","t","e","a","d",".">>

TextMin == <<"."," ","I","n","c","r","e","a","s","i","n","g"," ","m","i","n","i","m","u","m","s"," ","i","s"," ","p","r","o","h","i","b","i","t","e","d",";"," ","o","n","l","y"," ","d","e","c","r","e","a","s","e","s"," ","a","r","e"," ","a","l","l","o","w","e","d",".">>

TextMax == <<"."," ","D","e","c","r","e","a","s","i","n","g"," ","m","a","x","i","m","u","m","s"," ","i","s"," ","p","r","o","h","i","b","i","t","e","d",";"," ","o","n","l","y"," ","i","n","c","r","e","a","s","e","s"," ","a","r","e"," ","a","l","l","o","w","e","d",".">>

TextConstraint == <<"A","d","d","i","n","g"," ","m","i","n","/","m","a","x"," ","c","o","n","s","t","r","a","i","n","t","s"," ","t","o"," ","p","r","e","v","i","o","u","s","l","y"," ","u","n","c","o","n","s","t","r","a","i","n","e","d"," ","f","i","e","l","d","s"," ","i","s"," ","p","r","o","h","i","b","i","t","e","d",".">>

TextGeneric == <<"T","h","e"," ","O","L","M"," ","p","r","e","f","l","i","g","h","t"," ","b","l","o","c","k","e","d"," ","o","u","r"," ","C","R","D"," ","u","p","d","a","t","e"," ","b","e","c","a","u","s","e"," ","i","t"," ","i","s","n","'","t"," ","b","a","c","k","w","a","r","d","s","-","c","o","m","p","a","t","i","b","l","e","."," ","P","l","e","a","s","e"," ","r","e","w","o","r","k"," ","t","h","e"," ","c","h","a","n","g","e"," ","t","o"," ","b","e"," ","a","d","d","i","t","i","v","e",":"," ","a","v","o","i","d"," ","r","e","m","o","v","i","n","g"," ","o","r"," ","t","i","g","h","t","e","n","i","n","g"," ","f","i","e","l","d","s",","," ","d","o","n","'","t"," ","c","h","a","n","g","e"," ","t","y","p","e","s"," ","i","n"," ","p","l","a","c","e",","," ","a","n","d"," ","k","e","e","p"," ","d","e","f","a","u","l","t","s"," ","s","t","a","b","l","e",".">>

\* the chain of rules of categorizeValidationError, on the lower-cased text
categorizeLower(lowerErr, ctx) ==
    LET stored == reStoredRemoved(lowerErr)
        scope == reScopeChange(lowerErr)
        enum == reEnumTight(lowerErr)
        def == reDefaultChange(lowerErr)
        type == reFromToType(lowerErr)
        min == reMinIncreased(lowerErr)
        max == reMaxDecreased(lowerErr)
    IN  IF Len(stored) = 2
            THEN Msg(LabelVersion, ctx, <<"s","t","o","r","e","d"," ","v","e","r","s","i","o","n"," ","r","e","m","o","v","e","d"," ","(">> \o stored[2] \o <<")">>)
        ELSE IF Len(scope) = 3
            THEN Msg(LabelVersion, ctx, <<"s","c","o","p","e"," ">> \o arrow(scope[2], scope[3]))
        ELSE IF (Contains(lowerErr, <<"s","t","o","r","e","d"," ","v","e","r","s","i","o","n">>) \/ Contains(lowerErr, <<"s","e","r","v","e","d"," ","v","e","r","s","i","o","n">>)) /\ Contains(lowerErr, <<"r","e","m","o","v","e","d">>)
            THEN Msg(LabelVersion, ctx, <<"s","t","o","r","e","d","/","s","e","r","v","e","d"," ","v","e","r","s","i","o","n"," ","r","e","m","o","v","e","d">>)
        ELSE IF Contains(lowerErr, <<"r","e","q","u","i","r","e","d">>) /\ (Contains(lowerErr, <<"a","d","d","e","d">>) \/ Contains(lowerErr, <<"n","e","w">>))
            THEN Msg(LabelRequired, ctx, TextRequired)
        ELSE IF Contains(lowerErr, <<"r","e","m","o","v","a","l">>) \/ Contains(lowerErr, <<"r","e","m","o","v","e","d">>) \/ Contains(lowerErr, <<"e","x","i","s","t","i","n","g"," ","f","i","e","l","d">>)
            THEN Msg(LabelRemoval, ctx, TextRemoval)
        ELSE IF Len(enum) = 3
            THEN Msg(LabelEnumTight, ctx, arrow(enum[2], enum[3]) \o TextEnumTight)
        ELSE IF Contains(lowerErr, <<"e","n","u","m"," ","v","a","l","u","e","s"," ","r","e","m","o","v","e","d">>) \/ (Contains(lowerErr, <<"e","n","u","m">>) /\ Contains(lowerErr, <<"r","e","m","o","v","e","d">>)) \/ Contains(lowerErr, <<"e","n","u","m"," ","r","e","s","t","r","i","c","t","i","o","n"," ","a","d","d","e","d">>)
            THEN Msg(LabelEnumAdded, ctx, TextEnumAdded)
        ELSE IF Len(def) = 3
            THEN Msg(LabelDefaultChanged, ctx, arrow(def[2], def[3]) \o TextDefaultChanged)
        ELSE IF (Contains(lowerErr, <<"d","e","f","a","u","l","t">>) /\ Contains(lowerErr, <<"a","d","d","e","d">>)) \/ Contains(lowerErr, <<"d","e","f","a","u","l","t"," ","v","a","l","u","e"," ","a","d","d","e","d">>)
            THEN Msg(LabelDefaultAdded, ctx, TextDefaultAdded)
        ELSE IF (Contains(lowerErr, <<"d","e","f","a","u","l","t">>) /\ Contains(lowerErr, <<"r","e","m","o","v","e","d">>)) \/ Contains(lowerErr, <<"d","e","f","a","u","l","t"," ","v","a","l","u","e"," ","r","e","m","o","v","e","d">>)
            THEN Msg(LabelDefaultRemoved, ctx, TextDefaultRemoved)
        ELSE IF Len(type) = 3
            THEN Msg(LabelType, ctx, arrow(type[2], type[3]) \o <<"."," ">> \o TextType)
        ELSE IF Contains(lowerErr, <<"t","y","p","e">>) /\ (Contains(lowerErr, <<"c","h","a","n","g","e","d">>) \/ Contains(lowerErr, <<"d","i","f","f","e","r","e","n","t">>))
            THEN Msg(LabelType, ctx, TextType)
        ELSE IF Len(min) = 3
            THEN Msg(LabelMin, ctx, arrow(min[2], min[3]) \o TextMin)
        ELSE IF Len(max) = 3
            THEN Msg(LabelMax, ctx, arrow(max[2], max[3]) \o TextMax)
        ELSE IF HasBoundKeyword(lowerErr) /\ Contains(lowerErr, <<"a","d","d","e","d">>)
            THEN Msg(LabelConstraint, ctx, TextConstraint)
        ELSE Msg(LabelGeneric, ctx, TextGeneric)

\* mutant of categorizeValidationError: the rules read the text as given, not lower-cased
categorizeNoLower(e, ctx) == categorizeLower(e, ctx)

\* mutant of categorizeValidationError: the type-change pattern is tried before every other rule
categorizeTypeFirst(e, ctx) ==
    LET lowerErr == ToLower(e)
        type == reFromToType(lowerErr)
    IN  IF Len(type) = 3
            THEN Msg(LabelType, ctx, arrow(type[2], type[3]) \o <<"."," ">> \o TextType)
        ELSE categorizeLower(lowerErr, ctx)

categorizeValidationError(e, ctx) == categorizeLower(ToLower(e), ctx)

\* addCategorizedIssue: the message always goes in with AddIssue
addCategorizedIssue(summary, e, ctx) == AddIssue(summary, categorizeValidationError(e, ctx))

-----------------------------------------------------------------------------
(* summarizeValidationFailures                                              *)

\* runner.Results is a pointer: nil, or the three result shapes.  A result is
\* [Name, Errors]; SameVersionValidation and ServedVersionValidation are Go
\* maps version -> property -> results.
NilResults == [isNil |-> TRUE]

RECURSIVE Flatten(_)
Flatten(seqs) == IF Len(seqs) = 0 THEN <<>> ELSE Head(seqs) \o Flatten(Tail(seqs))

\* all orders in which `range` may visit the keys of a Go map
Perms(S) == {f \in [1..Cardinality(S) -> S] : \A x \in S : \E i \in 1..Cardinality(S) : f[i] = x}

\* the orders of a walk of a nested map: vs the order of the outer keys, ps[v]
\* the order of the inner keys under v
IterOrders(m) ==
    {[vs |-> a, ps |-> b] :
        a \in Perms(DOMAIN m),
        b \in {f \in [DOMAIN m -> UNION {Perms(DOMAIN m[v]) : v \in DOMAIN m}] :
                  \A v \in DOMAIN m : f[v] \in Perms(DOMAIN m[v])}}

\* the <<err, context>> pairs of a slice of results, in slice order
ResultPairs(checks, Ctx(_)) ==
    Flatten([i \in 1..Len(checks) |->
        [j \in 1..Len(checks[i].Errors) |-> <<checks[i].Errors[j], Ctx(checks[i].Name)>>]])

\* the pairs of a nested map walked in the order ord
MapPairs(m, ord, Ctx(_, _, _)) ==
    Flatten([a \in 1..Len(ord.vs) |->
        LET version == ord.vs[a]
        IN  Flatten([b \in 1..Len(ord.ps[version]) |->
                LET property == ord.ps[version][b]
                    C(name) == Ctx(version, property, name)
                IN  ResultPairs(m[version][property], C)])])

CRDContext(name) == name

SameVersionContext(version, property, name) == version \o <<".">> \o property \o <<".">> \o name

ServedVersionContext(version, property, name) == <<"s","e","r","v","e","d"," ","v","e","r","s","i","o","n",":"," ">> \o name

\* mutant of WalkPairs: the served-version loop runs before the other two
WalkPairsServedFirst(results, sameOrd, servedOrd) ==
    MapPairs(results.ServedVersionValidation, servedOrd, ServedVersionContext)
    \o ResultPairs(results.CRDValidation, CRDContext)
    \o MapPairs(results.SameVersionValidation, sameOrd, SameVersionContext)

\* the failures in the order the three loops of summarizeValidationFailures visit them
WalkPairs(results, sameOrd, servedOrd) ==
    ResultPairs(results.CRDValidation, CRDContext)
    \o MapPairs(results.SameVersionValidation, sameOrd, SameVersionContext)
    \o MapPairs(results.ServedVersionValidation, servedOrd, ServedVersionContext)

\* the summary accumulator after the three loops
WalkSummary(results, sameOrd, servedOrd) ==
    LET pairs == WalkPairs(results, sameOrd, servedOrd)
        acc[i \in 0..Len(pairs)] ==
            IF i = 0 THEN newPreflightSummary
            ELSE addCategorizedIssue(acc[i - 1], pairs[i][1], pairs[i][2])
    IN  acc[Len(pairs)]

\* the switch over the prefix of the lower-cased issue
IssueTier(issue) ==
    LET l == ToLower(issue)
    IN  IF HasPrefix(l, <<"f","i","e","l","d"," ","r","e","m","o","v","a","l"," ","d","e","t","e","c","t","e","d">>) THEN "critical"
        ELSE IF HasPrefix(l, <<"r","e","q","u","i","r","e","d"," ","f","i","e","l","d"," ","a","d","d","e","d">>) THEN "critical"
        ELSE IF HasPrefix(l, <<"v","e","r","s","i","o","n"," ","r","e","m","o","v","a","l","/","s","c","o","p","e"," ","c","h","a","n","g","e">>) THEN "critical"
        ELSE IF HasPrefix(l, <<"t","y","p","e"," ","c","h","a","n","g","e","d">>) THEN "breaking"
        ELSE IF HasPrefix(l, <<"e","n","u","m"," ","r","e","s","t","r","i","c","t","i","o","n"," ","t","i","g","h","t","e","n","e","d">>) \/ HasPrefix(l, <<"e","n","u","m"," ","r","e","s","t","r","i","c","t","i","o","n"," ","a","d","d","e","d">>) THEN "breaking"
        ELSE IF HasPrefix(l, <<"d","e","f","a","u","l","t"," ","c","h","a","n","g","e","d">>) \/ HasPrefix(l, <<"d","e","f","a","u","l","t"," ","a","d","d","e","d">>) \/ HasPrefix(l, <<"d","e","f","a","u","l","t"," ","r","e","m","o","v","e","d">>) THEN "breaking"
        ELSE IF HasPrefix(l, <<"m","i","n","i","m","u","m"," ","i","n","c","r","e","a","s","e","d">>) \/ HasPrefix(l, <<"m","a","x","i","m","u","m"," ","d","e","c","r","e","a","s","e","d">>) \/ HasPrefix(l, <<"c","o","n","s","t","r","a","i","n","t"," ","a","d","d","e","d">>) THEN "breaking"
        ELSE "other"

TierCount(issues, tier) == Cardinality({i \in 1..Len(issues) : IssueTier(issues[i]) = tier})

TextNilResults == <<"T","h","e"," ","O","L","M"," ","p","r","e","f","l","i","g","h","t"," ","b","l","o","c","k","e","d"," ","o","u","r"," ","C","R","D"," ","u","p","d","a","t","e"," ","b","e","c","a","u","s","e"," ","i","t"," ","i","s","n","'","t"," ","b","a","c","k","w","a","r","d","s","-","c","o","m","p","a","t","i","b","l","e","."," ","P","l","e","a","s","e"," ","r","e","w","o","r","k"," ","t","h","e"," ","c","h","a","n","g","e"," ","t","o"," ","b","e"," ","a","d","d","i","t","i","v","e",":"," ","a","v","o","i","d"," ","r","e","m","o","v","i","n","g"," ","o","r"," ","t","i","g","h","t","e","n","i","n","g"," ","f","i","e","l","d","s",","," ","d","o","n","'","t"," ","c","h","a","n","g","e"," ","t","y","p","e","s"," ","i","n"," ","p","l","a","c","e",","," ","a","n","d"," ","k","e","e","p"," ","d","e","f","a","u","l","t","s"," ","s","t","a","b","l","e","."," ","I","f"," ","t","h","i","s"," ","i","s"," ","a"," ","s","e","m","a","n","t","i","c"," ","c","h","a","n","g","e",","," ","a","d","d"," ","a"," ","n","e","w"," ","C","R","D"," ","v","e","r","s","i","o","n"," ","a","n","d"," ","k","e","e","p"," ","t","h","e"," ","o","l","d"," ","o","n","e"," ","s","e","r","v","e","d"," ","u","n","t","i","l"," ","w","e"," ","m","i","g","r","a","t","e",".">>

\* mutant of RenderIssues: the total leaves out the issues of the other tier
RenderIssuesTierTotal(issues) ==
    LET criticalCount == TierCount(issues, "critical")
        breakingCount == TierCount(issues, "breaking")
        otherCount == TierCount(issues, "other")
        total == criticalCount + breakingCount
        parts == (IF criticalCount > 0 THEN <<Itoa(criticalCount) \o <<" ","c","r","i","t","i","c","a","l">>>> ELSE <<>>)
                 \o (IF breakingCount > 0 THEN <<Itoa(breakingCount) \o <<" ","b","r","e","a","k","i","n","g">>>> ELSE <<>>)
                 \o (IF otherCount > 0 THEN <<Itoa(otherCount) \o <<" ","o","t","h","e","r">>>> ELSE <<>>)
        header == <<"C","R","D"," ","U","p","g","r","a","d","e"," ","S","a","f","e","t","y","\n","T","o","t","a","l",":"," ">> \o Itoa(total) \o <<" ","(">> \o Join(parts, <<","," ">>) \o <<")">>
    IN  IF total = 0 THEN <<"C","R","D"," ","U","p","g","r","a","d","e"," ","S","a","f","e","t","y","\n","T","o","t","a","l",":"," ","0","\n","I","s","s","u","e","s",":"," ","n","o","n","e">>
        ELSE header \o <<"\n","I","s","s","u","e","s",":","\n">> \o Join(Bullets(issues), <<"\n">>)

\* the text rendered from the issues of the accumulator
RenderIssues(issues) ==
    LET criticalCount == TierCount(issues, "critical")
        breakingCount == TierCount(issues, "breaking")
        otherCount == TierCount(issues, "other")
        total == Len(issues)
        parts == (IF criticalCount > 0 THEN <<Itoa(criticalCount) \o <<" ","c","r","i","t","i","c","a","l">>>> ELSE <<>>)
                 \o (IF breakingCount > 0 THEN <<Itoa(breakingCount) \o <<" ","b","r","e","a","k","i","n","g">>>> ELSE <<>>)
                 \o (IF otherCount > 0 THEN <<Itoa(otherCount) \o <<" ","o","t","h","e","r">>>> ELSE <<>>)
        header == <<"C","R","D"," ","U","p","g","r","a","d","e"," ","S","a","f","e","t","y","\n","T","o","t","a","l",":"," ">> \o Itoa(total) \o <<" ","(">> \o Join(parts, <<","," ">>) \o <<")">>
    IN  IF total = 0 THEN <<"C","R","D"," ","U","p","g","r","a","d","e"," ","S","a","f","e","t","y","\n","T","o","t","a","l",":"," ","0","\n","I","s","s","u","e","s",":"," ","n","o","n","e">>
        ELSE header \o <<"\n","I","s","s","u","e","s",":","\n">> \o Join(Bullets(issues), <<"\n">>)

\* sameOrd and servedOrd are the orders in which the two maps happen to be walked
summarizeValidationFailures(results, sameOrd, servedOrd) ==
    IF results.isNil THEN TextNilResults
    ELSE RenderIssues(WalkSummary(results, sameOrd, servedOrd).Issues)

-----------------------------------------------------------------------------
(* Errors                                                                   *)

NilError == [isNil |-> TRUE]

\* an error value: its Error() text, the errors it wraps, and for an API
\* status error its reason
NewError(msg, wraps, reason) == [isNil |-> FALSE, msg |-> msg, wraps |-> wraps, reason |-> reason]

\* fmt.Errorf(prefix + ": %w", err)
Wrap(prefix, err) == NewError(prefix \o <<":"," ">> \o err.msg, <<err>>, "")

\* mutant of ErrorsJoin: only the last error survives the join
ErrorsJoinKeepsLast(errs) ==
    IF Len(errs) = 0 THEN NilError
    ELSE NewError(errs[Len(errs)].msg, <<errs[Len(errs)]>>, "")

\* errors.Join: nil when no error is given, else the errors with their texts
\* joined by newlines
ErrorsJoin(errs) ==
    IF Len(errs) = 0 THEN NilError
    ELSE NewError(Join([i \in 1..Len(errs) |-> errs[i].msg], <<"\n">>), errs, "")

\* apierrors.IsNotFound
IsNotFound(err) == ~err.isNil /\ err.reason = "NotFound"

-----------------------------------------------------------------------------
(* Bounds and inputs                                                        *)

\* longest manifest, in objects
MaxObjects == 2

\* longest raw failure string, in phrases
MaxPhrases == 2

CRDKind == "apiextensions.k8s.io/v1, Kind=CustomResourceDefinition"

GroupVersionKinds == {CRDKind, "apiextensions.k8s.io/v1beta1, Kind=CustomResourceDefinition", "/v1, Kind=ConfigMap"}

ObjectNames == {<<"f","o","o","s",".","x",".","i","o">>, <<"b","a","r","s",".","x",".","i","o">>}

Objects == [gvk : GroupVersionKinds, name : ObjectNames]

Manifests == UNION {[1..n -> Objects] : n \in 0..MaxObjects}

NilRelease == [isNil |-> TRUE]

Releases == {NilRelease} \cup {[isNil |-> FALSE, Name |-> <<"d","e","m","o">>, Manifest |-> m] : m \in Manifests}

\* what crdClient.Get may fail with
GetErrors == {NewError(<<"c","u","s","t","o","m","r","e","s","o","u","r","c","e","d","e","f","i","n","i","t","i","o","n","s"," ","n","o","t"," ","f","o","u","n","d">>, <<>>, "NotFound"),
              NewError(<<"c","u","s","t","o","m","r","e","s","o","u","r","c","e","d","e","f","i","n","i","t","i","o","n","s"," ","i","s"," ","f","o","r","b","i","d","d","e","n">>, <<>>, "Forbidden")}

ParseError == NewError(<<"y","a","m","l",":"," ","i","n","v","a","l","i","d"," ","d","o","c","u","m","e","n","t">>, <<>>, "")

RunnerError == NewError(<<"u","n","k","n","o","w","n"," ","v","a","l","i","d","a","t","i","o","n">>, <<>>, "")

ConvertError == NewError(<<"u","n","r","e","c","o","g","n","i","z","e","d"," ","t","y","p","e">>, <<>>, "")

Check(name, errs) == [Name |-> name, Errors |-> errs]

NoMap == <<>>

Results(crd, same, served) == [isNil |-> FALSE, CRDValidation |-> crd, SameVersionValidation |-> same, ServedVersionValidation |-> served]

\* what runner.Run may return
RunnerResults ==
    { Results(<<Check(<<"s","c","o","p","e">>, <<>>)>>, NoMap, NoMap),
      Results(<<Check(<<"d","e","s","c","r","i","p","t","i","o","n">>, <<<<"f","i","e","l","d"," ","d","e","s","c","r","i","p","t","i","o","n"," ","u","p","d","a","t","e","d">>>>)>>, NoMap, NoMap),
      Results(<<Check(<<"e","x","i","s","t","i","n","g","F","i","e","l","d","R","e","m","o","v","a","l">>, <<<<"e","x","i","s","t","i","n","g"," ","f","i","e","l","d"," ","'","s","p","e","c",".","r","o","u","t","e","'"," ","r","e","m","o","v","e","d"," ","f","r","o","m"," ","s","c","h","e","m","a">>>>)>>, NoMap, NoMap),
      Results(<<>>,
              [v \in {<<"v","1">>} |-> [p \in {<<"^",".","s","p","e","c",".","s","i","z","e">>, <<"^",".","s","p","e","c",".","m","o","d","e">>} |->
                  IF p = <<"^",".","s","p","e","c",".","s","i","z","e">> THEN <<Check(<<"t","y","p","e">>, <<<<"t","y","p","e"," ","c","h","a","n","g","e","d"," ","f","r","o","m"," ","S","t","r","i","n","g"," ","t","o"," ","I","n","t","e","g","e","r">>>>)>>
                  ELSE <<Check(<<"e","n","u","m">>, <<>>), Check(<<"d","e","f","a","u","l","t">>, <<<<"d","e","f","a","u","l","t"," ","v","a","l","u","e"," ","a","d","d","e","d">>>>)>>]],
              NoMap),
      Results(<<Check(<<"s","t","o","r","e","d","V","e","r","s","i","o","n","R","e","m","o","v","a","l">>, <<<<"s","t","o","r","e","d"," ","v","e","r","s","i","o","n"," ","v","1","a","l","p","h","a","1"," ","r","e","m","o","v","e","d">>>>)>>,
              [v \in {<<"v","1">>, <<"v","2">>} |-> [p \in {<<"^",".","s","p","e","c">>} |->
                  <<Check(<<"d","e","s","c","r","i","p","t","i","o","n">>, <<IF v = <<"v","1">> THEN <<"d","e","s","c","r","i","p","t","i","o","n"," ","o","f"," ","s","p","e","c"," ","u","p","d","a","t","e","d">> ELSE <<"r","e","q","u","i","r","e","d"," ","f","i","e","l","d"," ","'","n","e","w","F","i","e","l","d","'"," ","a","d","d","e","d"," ","t","o"," ","s","c","h","e","m","a">>>>)>>]],
              [v \in {<<"v","1">>} |-> [p \in {<<"^",".","s","t","a","t","u","s">>} |-> <<Check(<<"m","a","x","i","m","u","m">>, <<<<"m","a","x","i","m","u","m"," ","v","a","l","u","e"," ","d","e","c","r","e","a","s","e","d"," ","f","r","o","m"," ","1","0"," ","t","o"," ","5">>>>)>>]]) }

\* mutant of HasFailures: every result counts as failed
HasFailuresAlways(results) == TRUE

\* runner.Results.HasFailures: some check of some shape carries an error
HasFailures(results) ==
    \/ \E i \in 1..Len(results.CRDValidation) : Len(results.CRDValidation[i].Errors) > 0
    \/ \E v \in DOMAIN results.SameVersionValidation : \E p \in DOMAIN results.SameVersionValidation[v] :
          \E i \in 1..Len(results.SameVersionValidation[v][p]) : Len(results.SameVersionValidation[v][p][i].Errors) > 0
    \/ \E v \in DOMAIN results.ServedVersionValidation : \E p \in DOMAIN results.ServedVersionValidation[v] :
          \E i \in 1..Len(results.ServedVersionValidation[v][p]) : Len(results.ServedVersionValidation[v][p][i].Errors) > 0

-----------------------------------------------------------------------------
(* runPreflight                                                             *)

\* the variables of the categorization specification, untouched by runPreflight
catVars == <<errStr, context, message, severity>>

sumVars == <<preflightSummary, addCalls, rendered>>

\* the variables of the bundle configuration specification
cfgVars == <<configCall, config, configErr>>

\* no call into the bundle configuration code has been made
NoCall == [op |-> "none"]

\* a nil *Config
NilConfig == [isNil |-> TRUE]

Init ==
    /\ pc = "idle"
    /\ entry = ""
    /\ rel \in Releases
    /\ relObjects = <<>>
    /\ idx = 0
    /\ oldCrd = <<>>
    /\ validateErrors = <<>>
    /\ ret = NilError
    /\ getCalls = <<>>
    /\ runCalls = <<>>
    /\ errStr = <<>>
    /\ context = <<>>
    /\ message = <<>>
    /\ severity = ""
    /\ preflightSummary = newPreflightSummary
    /\ addCalls = <<>>
    /\ rendered = <<>>
    /\ configCall = NoCall
    /\ config = NilConfig
    /\ configErr = NilError

\* mutant of Install: Install returns nil without running the preflight
InstallSkipsPreflight ==
    /\ pc = "idle"
    /\ entry' = "Install"
    /\ pc' = "done"
    /\ ret' = NilError
    /\ UNCHANGED <<rel, relObjects, idx, oldCrd, validateErrors, getCalls, runCalls, catVars, sumVars, cfgVars>>

\* Preflight.Install: return p.runPreflight(ctx, rel)
Install ==
    /\ pc = "idle"
    /\ entry' = "Install"
    /\ pc' = "start"
    /\ UNCHANGED <<rel, relObjects, idx, oldCrd, validateErrors, ret, getCalls, runCalls, catVars, sumVars, cfgVars>>

\* Preflight.Upgrade: return p.runPreflight(ctx, rel)
Upgrade ==
    /\ pc = "idle"
    /\ entry' = "Upgrade"
    /\ pc' = "start"
    /\ UNCHANGED <<rel, relObjects, idx, oldCrd, validateErrors, ret, getCalls, runCalls, catVars, sumVars, cfgVars>>

\* return err
Return(err) ==
    /\ pc' = "done"
    /\ ret' = err

\* if rel == nil { return nil }
NilReleaseReturn ==
    /\ pc = "start"
    /\ rel.isNil
    /\ Return(NilError)
    /\ UNCHANGED <<entry, rel, relObjects, idx, oldCrd, validateErrors, getCalls, runCalls, catVars, sumVars, cfgVars>>

\* util.ManifestObjects succeeds
ParseManifest ==
    /\ pc = "start"
    /\ ~rel.isNil
    /\ relObjects' = rel.Manifest
    /\ pc' = "runner"
    /\ UNCHANGED <<entry, rel, idx, oldCrd, validateErrors, ret, getCalls, runCalls, catVars, sumVars, cfgVars>>

\* util.ManifestObjects fails
ParseManifestFails ==
    /\ pc = "start"
    /\ ~rel.isNil
    /\ Return(Wrap(<<"p","a","r","s","i","n","g"," ","r","e","l","e","a","s","e"," ">> \o Quote(rel.Name) \o <<" ","o","b","j","e","c","t","s">>, ParseError))
    /\ UNCHANGED <<entry, rel, relObjects, idx, oldCrd, validateErrors, getCalls, runCalls, catVars, sumVars, cfgVars>>

\* runner.New succeeds; validateErrors is made and the loop begins
NewRunner ==
    /\ pc = "runner"
    /\ validateErrors' = <<>>
    /\ idx' = 1
    /\ pc' = "loop"
    /\ UNCHANGED <<entry, rel, relObjects, oldCrd, ret, getCalls, runCalls, catVars, sumVars, cfgVars>>

\* runner.New fails
NewRunnerFails ==
    /\ pc = "runner"
    /\ Return(Wrap(<<"c","r","e","a","t","i","n","g"," ","C","R","D"," ","v","a","l","i","d","a","t","i","o","n"," ","r","u","n","n","e","r">>, RunnerError))
    /\ UNCHANGED <<entry, rel, relObjects, idx, oldCrd, validateErrors, getCalls, runCalls, catVars, sumVars, cfgVars>>

\* mutant of SkipObject: an object of another kind goes on to the lookup
SkipObjectLooksUp ==
    /\ pc = "loop"
    /\ idx <= Len(relObjects)
    /\ relObjects[idx].gvk # CRDKind
    /\ pc' = "get"
    /\ UNCHANGED <<entry, rel, relObjects, idx, oldCrd, validateErrors, ret, getCalls, runCalls, catVars, sumVars, cfgVars>>

\* an object of another kind: continue
SkipObject ==
    /\ pc = "loop"
    /\ idx <= Len(relObjects)
    /\ relObjects[idx].gvk # CRDKind
    /\ idx' = idx + 1
    /\ UNCHANGED <<pc, entry, rel, relObjects, oldCrd, validateErrors, ret, getCalls, runCalls, catVars, sumVars, cfgVars>>

\* both conversions of a CRD object succeed
ConvertObject ==
    /\ pc = "loop"
    /\ idx <= Len(relObjects)
    /\ relObjects[idx].gvk = CRDKind
    /\ pc' = "get"
    /\ UNCHANGED <<entry, rel, relObjects, idx, oldCrd, validateErrors, ret, getCalls, runCalls, catVars, sumVars, cfgVars>>

\* ToUnstructured fails
ToUnstructuredFails ==
    /\ pc = "loop"
    /\ idx <= Len(relObjects)
    /\ relObjects[idx].gvk = CRDKind
    /\ Return(Wrap(<<"c","o","n","v","e","r","t","i","n","g"," ","o","b","j","e","c","t"," ">> \o Quote(relObjects[idx].name) \o <<" ","t","o"," ","u","n","s","t","r","u","c","t","u","r","e","d">>, ConvertError))
    /\ UNCHANGED <<entry, rel, relObjects, idx, oldCrd, validateErrors, getCalls, runCalls, catVars, sumVars, cfgVars>>

\* FromUnstructured fails
FromUnstructuredFails ==
    /\ pc = "loop"
    /\ idx <= Len(relObjects)
    /\ relObjects[idx].gvk = CRDKind
    /\ Return(Wrap(<<"c","o","n","v","e","r","t","i","n","g"," ","u","n","s","t","r","u","c","t","u","r","e","d"," ","t","o"," ","C","R","D"," ","o","b","j","e","c","t">>, ConvertError))
    /\ UNCHANGED <<entry, rel, relObjects, idx, oldCrd, validateErrors, getCalls, runCalls, catVars, sumVars, cfgVars>>

\* crdClient.Get finds the installed CRD
GetFound ==
    /\ pc = "get"
    /\ oldCrd' = <<relObjects[idx].name>>
    /\ getCalls' = Append(getCalls, [idx |-> idx, name |-> relObjects[idx].name, err |-> NilError])
    /\ pc' = "run"
    /\ UNCHANGED <<entry, rel, relObjects, idx, validateErrors, ret, runCalls, catVars, sumVars, cfgVars>>

\* mutant of GetFails: the not-found branch misses its continue and goes on to runner.Run
GetFailsNotFoundRuns ==
    /\ pc = "get"
    /\ \E err \in GetErrors :
        /\ getCalls' = Append(getCalls, [idx |-> idx, name |-> relObjects[idx].name, err |-> err])
        /\ IF IsNotFound(err)
           THEN /\ pc' = "run"
                /\ ret' = ret
           ELSE Return(Wrap(<<"g","e","t","t","i","n","g"," ","e","x","i","s","t","i","n","g"," ","r","e","s","o","u","r","c","e"," ","f","o","r"," ","C","R","D"," ">> \o Quote(relObjects[idx].name), err))
    /\ UNCHANGED <<entry, rel, relObjects, idx, oldCrd, validateErrors, runCalls, catVars, sumVars, cfgVars>>

\* mutant of GetFails: an error other than not-found is collected and the loop goes on
GetFailsCollectsFatal ==
    /\ pc = "get"
    /\ \E err \in GetErrors :
        /\ getCalls' = Append(getCalls, [idx |-> idx, name |-> relObjects[idx].name, err |-> err])
        /\ validateErrors' =
              IF IsNotFound(err) THEN validateErrors
              ELSE Append(validateErrors, Wrap(<<"g","e","t","t","i","n","g"," ","e","x","i","s","t","i","n","g"," ","r","e","s","o","u","r","c","e"," ","f","o","r"," ","C","R","D"," ">> \o Quote(relObjects[idx].name), err))
    /\ idx' = idx + 1
    /\ pc' = "loop"
    /\ UNCHANGED <<entry, rel, relObjects, oldCrd, ret, runCalls, catVars, sumVars, cfgVars>>

\* crdClient.Get fails: not-found continues, any other error is returned
GetFails ==
    /\ pc = "get"
    /\ \E err \in GetErrors :
        /\ getCalls' = Append(getCalls, [idx |-> idx, name |-> relObjects[idx].name, err |-> err])
        /\ IF IsNotFound(err)
           THEN /\ idx' = idx + 1
                /\ pc' = "loop"
                /\ ret' = ret
           ELSE /\ Return(Wrap(<<"g","e","t","t","i","n","g"," ","e","x","i","s","t","i","n","g"," ","r","e","s","o","u","r","c","e"," ","f","o","r"," ","C","R","D"," ">> \o Quote(relObjects[idx].name), err))
                /\ idx' = idx
    /\ UNCHANGED <<entry, rel, relObjects, oldCrd, validateErrors, runCalls, catVars, sumVars, cfgVars>>

\* fmt.Errorf("CRD %q upgrade blocked: %s", newCrd.Name, summary)
BlockedError(name, summary) == NewError(<<"C","R","D"," ">> \o Quote(name) \o <<" ","u","p","g","r","a","d","e"," ","b","l","o","c","k","e","d",":"," ">> \o summary, <<>>, "")

\* mutant of RunValidations: the collected error goes to the front of validateErrors
RunValidationsPrepends ==
    /\ pc = "run"
    /\ \E results \in RunnerResults :
       \E sameOrd \in IterOrders(results.SameVersionValidation) :
       \E servedOrd \in IterOrders(results.ServedVersionValidation) :
        /\ runCalls' = Append(runCalls, [idx |-> idx, name |-> relObjects[idx].name, results |-> results,
                                         sameOrd |-> sameOrd, servedOrd |-> servedOrd])
        /\ validateErrors' =
              IF HasFailures(results)
              THEN <<BlockedError(relObjects[idx].name, summarizeValidationFailures(results, sameOrd, servedOrd))>> \o validateErrors
              ELSE validateErrors
    /\ idx' = idx + 1
    /\ pc' = "loop"
    /\ UNCHANGED <<entry, rel, relObjects, oldCrd, ret, getCalls, catVars, sumVars, cfgVars>>

\* runner.Run, and the error collected when the results have failures
RunValidations ==
    /\ pc = "run"
    /\ \E results \in RunnerResults :
       \E sameOrd \in IterOrders(results.SameVersionValidation) :
       \E servedOrd \in IterOrders(results.ServedVersionValidation) :
        /\ runCalls' = Append(runCalls, [idx |-> idx, name |-> relObjects[idx].name, results |-> results,
                                         sameOrd |-> sameOrd, servedOrd |-> servedOrd])
        /\ validateErrors' =
              IF HasFailures(results)
              THEN Append(validateErrors, BlockedError(relObjects[idx].name, summarizeValidationFailures(results, sameOrd, servedOrd)))
              ELSE validateErrors
    /\ idx' = idx + 1
    /\ pc' = "loop"
    /\ UNCHANGED <<entry, rel, relObjects, oldCrd, ret, getCalls, catVars, sumVars, cfgVars>>

\* return errors.Join(validateErrors...)
JoinErrors ==
    /\ pc = "loop"
    /\ idx > Len(relObjects)
    /\ Return(ErrorsJoin(validateErrors))
    /\ UNCHANGED <<entry, rel, relObjects, idx, oldCrd, validateErrors, getCalls, runCalls, catVars, sumVars, cfgVars>>

Next ==
    \/ Install
    \/ Upgrade
    \/ NilReleaseReturn
    \/ ParseManifest
    \/ ParseManifestFails
    \/ NewRunner
    \/ NewRunnerFails
    \/ SkipObject
    \/ ConvertObject
    \/ ToUnstructuredFails
    \/ FromUnstructuredFails
    \/ GetFound
    \/ GetFails
    \/ RunValidations
    \/ JoinErrors

Spec == Init /\ [][Next]_vars

-----------------------------------------------------------------------------
(* categorizeValidationError and determineErrorSeverity on their own        *)

Phrases ==
    { <<"s","t","o","r","e","d"," ","v","e","r","s","i","o","n"," ","v","1","a","l","p","h","a","1"," ","r","e","m","o","v","e","d">>,
      <<"s","e","r","v","e","d"," ","v","e","r","s","i","o","n">>,
      <<"s","c","o","p","e"," ","c","h","a","n","g","e","d"," ","f","r","o","m"," ","\"","N","a","m","e","s","p","a","c","e","d","\""," ","t","o"," ","\"","C","l","u","s","t","e","r","\"">>,
      <<"r","e","q","u","i","r","e","d"," ","f","i","e","l","d"," ","'","n","e","w","F","i","e","l","d","'">>,
      <<"a","d","d","e","d">>,
      <<"r","e","m","o","v","e","d">>,
      <<"e","x","i","s","t","i","n","g"," ","f","i","e","l","d">>,
      <<"e","n","u","m"," ","c","o","n","s","t","r","a","i","n","t"," ","t","i","g","h","t","e","n","e","d"," ","i","n"," ","^",".","s","p","e","c",".","m","o","d","e"," ","f","r","o","m"," ","[","A",",","b",",","c","]"," ","t","o"," ","[","A",",","b","]">>,
      <<"e","n","u","m"," ","r","e","s","t","r","i","c","t","i","o","n">>,
      <<"r","e","s","t","r","i","c","t","e","d">>,
      <<"D","e","f","a","u","l","t"," ","v","a","l","u","e"," ","c","h","a","n","g","e","d"," ","f","r","o","m"," ","'","F","a","l","s","e","'"," ","t","o"," ","'","T","r","u","e","'">>,
      <<"d","e","f","a","u","l","t">>,
      <<"f","i","e","l","d"," ","t","y","p","e"," ","c","h","a","n","g","e","d"," ","f","r","o","m"," ","S","t","r","i","n","g"," ","t","o"," ","I","n","t","e","g","e","r">>,
      <<"t","y","p","e"," ","i","s"," ","d","i","f","f","e","r","e","n","t">>,
      <<"c","h","a","n","g","e","d">>,
      <<"m","i","n","i","m","u","m"," ","v","a","l","u","e"," ","o","f"," ","r","e","p","l","i","c","a","s"," ","i","n","c","r","e","a","s","e","d"," ","f","r","o","m"," ","1"," ","t","o"," ","5">>,
      <<"m","a","x","i","m","u","m"," ","v","a","l","u","e"," ","d","e","c","r","e","a","s","e","d"," ","f","r","o","m"," ","1","0"," ","t","o"," ","5">>,
      <<"m","a","x","L","e","n","g","t","h">>,
      <<"d","e","s","c","r","i","p","t","i","o","n"," ","u","p","d","a","t","e","d">> }

RECURSIVE PhraseTexts(_)
\* the texts made of n phrases separated by blanks
PhraseTexts(n) ==
    IF n = 0 THEN {<<>>}
    ELSE IF n = 1 THEN Phrases
    ELSE {a \o <<" ">> \o b : a \in PhraseTexts(n - 1), b \in Phrases}

RawFailures == UNION {PhraseTexts(n) : n \in 0..MaxPhrases}

Contexts == {<<"v","1",".","^",".","s","p","e","c",".","m","o","d","e",".","e","n","u","m">>, <<"S","e","r","v","e","d"," ","V","e","r","s","i","o","n",":"," ","s","c","o","p","e">>}

InitCategorize ==
    /\ pc = "input"
    /\ errStr \in RawFailures
    /\ context \in Contexts
    /\ message = <<>>
    /\ severity = ""
    /\ rel = NilRelease
    /\ relObjects = <<>>
    /\ idx = 0
    /\ oldCrd = <<>>
    /\ validateErrors = <<>>
    /\ ret = NilError
    /\ getCalls = <<>>
    /\ runCalls = <<>>
    /\ entry = ""
    /\ preflightSummary = newPreflightSummary
    /\ addCalls = <<>>
    /\ rendered = <<>>
    /\ configCall = NoCall
    /\ config = NilConfig
    /\ configErr = NilError

\* one call of each classifier on the same raw failure
Categorize ==
    /\ pc = "input"
    /\ message' = categorizeValidationError(errStr, context)
    /\ severity' = determineErrorSeverity(errStr)
    /\ pc' = "categorized"
    /\ UNCHANGED <<errStr, context, entry, rel, relObjects, idx, oldCrd, validateErrors, ret, getCalls, runCalls, sumVars, cfgVars>>

NextCategorize == Categorize

SpecCategorize == InitCategorize /\ [][NextCategorize]_vars

-----------------------------------------------------------------------------
(* Properties of runPreflight                                               *)

\* the manifest objects of the CRD kind
CRDIndices(objs) == {i \in 1..Len(objs) : objs[i].gvk = CRDKind}

\* a lookup that failed with something else than not-found
FatalGet(call) == ~call.err.isNil /\ ~IsNotFound(call.err)

\* the Run calls whose results reported failures, in call order
FailedRuns == SelectSeq(runCalls, LAMBDA c : HasFailures(c.results))

\* the summary text the Run call c led to
RunSummary(c) == summarizeValidationFailures(c.results, c.sameOrd, c.servedOrd)

\* the issues in the report of the Run call c
RunIssues(c) == WalkSummary(c.results, c.sameOrd, c.servedOrd).Issues

\* how the entry of a blocked CRD begins
BlockedPrefix(name) == <<"C","R","D"," ","\"">> \o name \o <<"\""," ","u","p","g","r","a","d","e"," ","b","l","o","c","k","e","d",":"," ">>

\* the loop has gone through every manifest object and runPreflight has returned
Completed == pc = "done" /\ ~rel.isNil /\ idx > Len(relObjects)

\* C1: for every CRD object whose lookup reported not-found, runner.Run is never
\* invoked for it, no error is collected for it (every collected error belongs
\* to a Run call), the loop has moved on to the next object, and a run in which
\* every CRD of the manifest was looked up and not found returns nil.
C1_NotFoundShortCircuit ==
    /\ \A k \in 1..Len(getCalls) :
          IsNotFound(getCalls[k].err) =>
              /\ \A r \in 1..Len(runCalls) : runCalls[r].idx # getCalls[k].idx
              /\ idx > getCalls[k].idx
              /\ (pc = "done" => ret.isNil \/ ~Contains(ret.msg, getCalls[k].err.msg))
    /\ Len(validateErrors) = Len(FailedRuns)
    /\ (/\ pc = "done"
        /\ Len(getCalls) >= 1
        /\ {getCalls[k].idx : k \in 1..Len(getCalls)} = CRDIndices(relObjects)
        /\ \A k \in 1..Len(getCalls) : IsNotFound(getCalls[k].err))
       => ret = NilError

\* a not-found lookup was followed by the Run of a later object, and the run is over
C1_Witness ==
    /\ pc = "done"
    /\ \E k \in 1..Len(getCalls) : \E r \in 1..Len(runCalls) :
          IsNotFound(getCalls[k].err) /\ runCalls[r].idx > getCalls[k].idx

\* C4: once a lookup fails with an error other than not-found, runPreflight has
\* returned an error that wraps the retrieval error and names the CRD; that
\* lookup is the last one, and the Runner was invoked only for earlier objects.
C4_FatalRetrievalAbort ==
    \A k \in 1..Len(getCalls) :
        FatalGet(getCalls[k]) =>
            /\ pc = "done"
            /\ ~ret.isNil
            /\ ret.wraps = <<getCalls[k].err>>
            /\ Contains(ret.msg, getCalls[k].err.msg)
            /\ Contains(ret.msg, <<"\"">> \o relObjects[getCalls[k].idx].name \o <<"\"">>)
            /\ k = Len(getCalls)
            /\ \A r \in 1..Len(runCalls) : runCalls[r].idx < getCalls[k].idx

\* the first CRD was validated, the lookup of the second failed fatally
C4_WitnessAfterRun ==
    /\ Len(getCalls) = 2
    /\ FatalGet(getCalls[2])
    /\ Len(runCalls) = 1
    /\ Len(validateErrors) = 1

\* the lookup of the first object failed fatally and a CRD comes after it
C4_Witness ==
    /\ Len(getCalls) = 1
    /\ FatalGet(getCalls[1])
    /\ \E i \in CRDIndices(relObjects) : i > getCalls[1].idx

\* the critical and breaking issues the report of the Run call c counts
BlockingCount(c) == TierCount(RunIssues(c), "critical") + TierCount(RunIssues(c), "breaking")

\* an "upgrade blocked" error was collected for the Run call c
Collected(c) == \E j \in 1..Len(validateErrors) : validateErrors[j] = BlockedError(c.name, RunSummary(c))

\* C2: an "upgrade blocked" error is collected for an object only when its
\* report counts at least one critical or breaking issue; failures that are all
\* minor never cause one.
C2_MinorNeverRejects ==
    \A r \in 1..Len(runCalls) : Collected(runCalls[r]) => BlockingCount(runCalls[r]) > 0

SeverityCount(c, tier) ==
    LET pairs == WalkPairs(c.results, c.sameOrd, c.servedOrd)
    IN  Cardinality({i \in 1..Len(pairs) : determineErrorSeverity(pairs[i][1]) = tier})

\* C6: after the walk the accumulator's CriticalCount and BreakingCount are the
\* numbers of critical and of breaking failures found.
C6_TierRouting ==
    \A r \in 1..Len(runCalls) :
        LET c == runCalls[r]
            summary == WalkSummary(c.results, c.sameOrd, c.servedOrd)
        IN  /\ summary.CriticalCount = SeverityCount(c, "critical")
            /\ summary.BreakingCount = SeverityCount(c, "breaking")

\* C7: the number after "Total:" in the report counts the critical and
\* breaking issues only.
C7_TotalExcludesMinor ==
    \A r \in 1..Len(runCalls) :
        LET c == runCalls[r]
            shown == <<"C","R","D"," ","U","p","g","r","a","d","e"," ","S","a","f","e","t","y","\n","T","o","t","a","l",":"," ">> \o Itoa(BlockingCount(c))
        IN  HasFailures(c.results) =>
                HasPrefix(RunSummary(c), shown \o <<" ","(">>) \/ HasPrefix(RunSummary(c), shown \o <<"\n">>)

\* C8: the report of given Results is the same text whatever the order in
\* which the version and property maps are walked.
C8_ReportDeterministic ==
    \A r \in 1..Len(runCalls) :
        LET c == runCalls[r]
        IN  \A sameOrd \in IterOrders(c.results.SameVersionValidation) :
            \A servedOrd \in IterOrders(c.results.ServedVersionValidation) :
                summarizeValidationFailures(c.results, sameOrd, servedOrd) = RunSummary(c)

-----------------------------------------------------------------------------
(* Properties of categorizeValidationError and determineErrorSeverity       *)

\* the tier the label-prefix table of the report gives a message
LabelTier(msg) == IF IssueTier(msg) = "other" THEN "minor" ELSE IssueTier(msg)

\* C5: the tier determineErrorSeverity gives a raw failure is the tier the
\* label-prefix table gives the message categorizeValidationError makes of it.
C5_LabelSeverityLockStep == pc = "categorized" => severity = LabelTier(message)

\* the patterns with a from and a to group
FromToPatterns == {"scope", "enum", "default", "type", "min", "max"}

\* the order in which categorizeValidationError tries the patterns
CodePatternOrder == <<"stored", "scope", "enum", "default", "type", "min", "max">>

\* the order of the pattern list of the specification text
ListPatternOrder == <<"type", "default", "enum", "scope", "min", "max", "stored">>

PatternMatch(p, s) ==
    CASE p = "stored" -> reStoredRemoved(s)
      [] p = "scope" -> reScopeChange(s)
      [] p = "enum" -> reEnumTight(s)
      [] p = "default" -> reDefaultChange(s)
      [] p = "type" -> reFromToType(s)
      [] p = "min" -> reMinIncreased(s)
      [] p = "max" -> reMaxDecreased(s)

PatternLabel(p) ==
    CASE p \in {"stored", "scope"} -> LabelVersion
      [] p = "enum" -> LabelEnumTight
      [] p = "default" -> LabelDefaultChanged
      [] p = "type" -> LabelType
      [] p = "min" -> LabelMin
      [] p = "max" -> LabelMax

\* how the groups of a match show in the message
Rendering(p, m) == IF p = "stored" THEN <<"(">> \o m[2] \o <<")">> ELSE m[2] \o <<" ","→"," ">> \o m[3]

\* the first pattern of order that matches s, or "none"
FirstPattern(order, s) ==
    LET hits == {i \in 1..Len(order) : PatternMatch(order[i], s) # <<>>}
    IN  IF hits = {} THEN "none" ELSE order[CHOOSE i \in hits : \A j \in hits : i <= j]

KwVersionRemoved(l) == (Contains(l, <<"s","t","o","r","e","d"," ","v","e","r","s","i","o","n">>) \/ Contains(l, <<"s","e","r","v","e","d"," ","v","e","r","s","i","o","n">>)) /\ Contains(l, <<"r","e","m","o","v","e","d">>)

KwRequired(l) == Contains(l, <<"r","e","q","u","i","r","e","d">>) /\ (Contains(l, <<"a","d","d","e","d">>) \/ Contains(l, <<"n","e","w">>))

KwRemoval(l) == Contains(l, <<"r","e","m","o","v","a","l">>) \/ Contains(l, <<"r","e","m","o","v","e","d">>) \/ Contains(l, <<"e","x","i","s","t","i","n","g"," ","f","i","e","l","d">>)

KwEnum(l) == Contains(l, <<"e","n","u","m"," ","v","a","l","u","e","s"," ","r","e","m","o","v","e","d">>) \/ (Contains(l, <<"e","n","u","m">>) /\ Contains(l, <<"r","e","m","o","v","e","d">>)) \/ Contains(l, <<"e","n","u","m"," ","r","e","s","t","r","i","c","t","i","o","n"," ","a","d","d","e","d">>)

KwDefaultAdded(l) == (Contains(l, <<"d","e","f","a","u","l","t">>) /\ Contains(l, <<"a","d","d","e","d">>)) \/ Contains(l, <<"d","e","f","a","u","l","t"," ","v","a","l","u","e"," ","a","d","d","e","d">>)

KwDefaultRemoved(l) == (Contains(l, <<"d","e","f","a","u","l","t">>) /\ Contains(l, <<"r","e","m","o","v","e","d">>)) \/ Contains(l, <<"d","e","f","a","u","l","t"," ","v","a","l","u","e"," ","r","e","m","o","v","e","d">>)

KwType(l) == Contains(l, <<"t","y","p","e">>) /\ (Contains(l, <<"c","h","a","n","g","e","d">>) \/ Contains(l, <<"d","i","f","f","e","r","e","n","t">>))

\* one of the keyword tests the code places before pattern p applies
KeywordBefore(p, l) ==
    CASE p \in {"stored", "scope"} -> FALSE
      [] p = "enum" -> KwVersionRemoved(l) \/ KwRequired(l) \/ KwRemoval(l)
      [] p = "default" -> KwVersionRemoved(l) \/ KwRequired(l) \/ KwRemoval(l) \/ KwEnum(l)
      [] p = "type" -> KwVersionRemoved(l) \/ KwRequired(l) \/ KwRemoval(l) \/ KwEnum(l) \/ KwDefaultAdded(l) \/ KwDefaultRemoved(l)
      [] p \in {"min", "max"} -> KwVersionRemoved(l) \/ KwRequired(l) \/ KwRemoval(l) \/ KwEnum(l) \/ KwDefaultAdded(l) \/ KwDefaultRemoved(l) \/ KwType(l)

\* C9 as claimed: when the raw failure matches a from/to pattern, the message
\* contains "<from> -> <to>" with the groups as they stand in the raw failure.
C9_ArrowOfRawGroups ==
    pc = "categorized" =>
        \A p \in FromToPatterns :
            LET m == PatternMatch(p, errStr)
            IN  m # <<>> => Contains(message, m[2] \o <<" ","→"," ">> \o m[3])

\* C9 amended: when the lower-cased raw failure matches a from/to pattern and
\* no rule tried before that pattern applies, the message contains
\* "<from> -> <to>" with the groups as captured from the lower-cased text.
C9_ArrowOfLowerCasedGroups ==
    pc = "categorized" =>
        LET l == ToLower(errStr)
            p == FirstPattern(CodePatternOrder, l)
            m == PatternMatch(p, l)
        IN  (p \in FromToPatterns /\ ~KeywordBefore(p, l)) => Contains(message, m[2] \o <<" ","→"," ">> \o m[3])

\* a raw failure with capitals in its from/to values went through the type pattern
C9_Witness ==
    /\ pc = "categorized"
    /\ errStr # ToLower(errStr)
    /\ FirstPattern(CodePatternOrder, ToLower(errStr)) = "type"
    /\ ~KeywordBefore("type", ToLower(errStr))
    /\ reFromToType(errStr) # reFromToType(ToLower(errStr))
    /\ HasPrefix(message, LabelType)

\* the message is the one of pattern p: its label, the context, its groups
IsPatternMessage(p, m) ==
    /\ HasPrefix(message, PatternLabel(p) \o <<" ","(">> \o context \o <<")",":"," ">>)
    /\ Contains(message, Rendering(p, m))

\* C10 as claimed: the patterns come before every keyword test and in the order
\* of the pattern list, so the message is the one of the first pattern of that
\* list that matches.
C10_ListOrderPriority ==
    pc = "categorized" =>
        LET l == ToLower(errStr)
            p == FirstPattern(ListPatternOrder, l)
        IN  p # "none" => IsPatternMessage(p, PatternMatch(p, l))

\* C10 amended: the patterns are tried in the order stored-version removed,
\* scope change, enum tightening, default change, type change, minimum
\* increased, maximum decreased; the message is the one of the first pattern of
\* that order that matches, unless a keyword test placed before it applies.
C10_CodeOrderPriority ==
    pc = "categorized" =>
        LET l == ToLower(errStr)
            p == FirstPattern(CodePatternOrder, l)
        IN  (p # "none" /\ ~KeywordBefore(p, l)) => IsPatternMessage(p, PatternMatch(p, l))

\* two patterns match, the two orders disagree on the first, and the code's first wins
C10_Witness ==
    /\ pc = "categorized"
    /\ FirstPattern(CodePatternOrder, ToLower(errStr)) \notin {"none", FirstPattern(ListPatternOrder, ToLower(errStr))}
    /\ ~KeywordBefore(FirstPattern(CodePatternOrder, ToLower(errStr)), ToLower(errStr))
    /\ HasPrefix(message, PatternLabel(FirstPattern(CodePatternOrder, ToLower(errStr))))

-----------------------------------------------------------------------------
(* Properties of determineErrorSeverity and of the message shape            *)

\* C11: determineErrorSeverity depends on the lower-cased text alone and is
\* first-match-wins: critical whenever a critical rule holds, even when a
\* breaking rule holds too; breaking when no critical rule but a breaking rule
\* holds; minor otherwise.
C11_SeverityFirstMatchWins ==
    pc = "categorized" =>
        LET l == ToLower(errStr)
        IN  /\ severity = (IF CriticalRule(l) THEN "critical"
                           ELSE IF BreakingRule(l) THEN "breaking"
                           ELSE "minor")
            /\ severity = determineErrorSeverity(l)

\* a raw failure with capitals for which a critical and a breaking rule both hold
C11_Witness ==
    /\ pc = "categorized"
    /\ errStr # ToLower(errStr)
    /\ CriticalRule(ToLower(errStr))
    /\ BreakingRule(ToLower(errStr))
    /\ severity = "critical"

\* the labels a message of categorizeValidationError can begin with
CanonicalLabels ==
    { LabelVersion, LabelRequired, LabelRemoval, LabelEnumTight, LabelEnumAdded,
      LabelDefaultChanged, LabelDefaultAdded, LabelDefaultRemoved, LabelType,
      LabelMin, LabelMax, LabelConstraint, LabelGeneric }

\* the keyword test of the constraint rule
KwConstraint(l) == HasBoundKeyword(l) /\ Contains(l, <<"a","d","d","e","d">>)

\* no pattern matches l and no keyword test applies to it
NoSpecificRule(l) ==
    /\ FirstPattern(CodePatternOrder, l) = "none"
    /\ ~(KwVersionRemoved(l) \/ KwRequired(l) \/ KwRemoval(l) \/ KwEnum(l) \/ KwDefaultAdded(l)
         \/ KwDefaultRemoved(l) \/ KwType(l) \/ KwConstraint(l))

\* C12: every message of categorizeValidationError reads
\* "<label> (<context>): <explanation>" with one of the canonical labels, the
\* context as given and an explanation that is not empty; when no specific
\* rule applies the label is "Backwards-compatibility issue".
C12_MessageShape ==
    pc = "categorized" =>
        /\ \E label \in CanonicalLabels :
              /\ HasPrefix(message, label \o <<" ","(">> \o context \o <<")",":"," ">>)
              /\ Len(message) > Len(label) + Len(context) + 5
        /\ NoSpecificRule(ToLower(errStr)) => HasPrefix(message, LabelGeneric \o <<" ","(">> \o context \o <<")",":"," ">>)

\* a raw failure no specific rule applies to got the generic label, with a
\* context that has capitals
C12_Witness ==
    /\ pc = "categorized"
    /\ errStr # <<>>
    /\ NoSpecificRule(ToLower(errStr))
    /\ context # ToLower(context)
    /\ HasPrefix(message, LabelGeneric \o <<" ","(">> \o context \o <<")",":"," ">>)

-----------------------------------------------------------------------------
(* preflightMessageSummary on its own: add calls and GenerateMessage        *)

\* most add calls made on the accumulator
MaxAdds == 3

\* most GenerateMessage calls between two add calls
MaxRenders == 2

\* the issue texts handed to the add calls
IssueTexts == {<<"F","i","e","l","d"," ","r","e","m","o","v","a","l"," ","d","e","t","e","c","t","e","d"," ","(","f","o","o","s",".","x",".","i","o",")",":"," ","a","v","o","i","d"," ","r","e","m","o","v","i","n","g"," ","f","i","e","l","d","s",".">>, <<"d","e","s","c","r","i","p","t","i","o","n"," ","u","p","d","a","t","e","d">>}

InitSummary ==
    /\ pc = "summary"
    /\ preflightSummary = newPreflightSummary
    /\ addCalls = <<>>
    /\ rendered = <<>>
    /\ entry = ""
    /\ rel = NilRelease
    /\ relObjects = <<>>
    /\ idx = 0
    /\ oldCrd = <<>>
    /\ validateErrors = <<>>
    /\ ret = NilError
    /\ getCalls = <<>>
    /\ runCalls = <<>>
    /\ errStr = <<>>
    /\ context = <<>>
    /\ message = <<>>
    /\ severity = ""
    /\ configCall = NoCall
    /\ config = NilConfig
    /\ configErr = NilError

runVars == <<pc, entry, rel, relObjects, idx, oldCrd, validateErrors, ret, getCalls, runCalls>>

\* summary.AddCriticalIssue(issue)
CallAddCriticalIssue ==
    /\ pc = "summary"
    /\ Len(addCalls) < MaxAdds
    /\ \E issue \in IssueTexts :
        /\ preflightSummary' = AddCriticalIssue(preflightSummary, issue)
        /\ addCalls' = Append(addCalls, [op |-> "AddCriticalIssue", issue |-> issue])
    /\ rendered' = <<>>
    /\ UNCHANGED <<runVars, catVars, cfgVars>>

\* summary.AddBreakingIssue(issue)
CallAddBreakingIssue ==
    /\ pc = "summary"
    /\ Len(addCalls) < MaxAdds
    /\ \E issue \in IssueTexts :
        /\ preflightSummary' = AddBreakingIssue(preflightSummary, issue)
        /\ addCalls' = Append(addCalls, [op |-> "AddBreakingIssue", issue |-> issue])
    /\ rendered' = <<>>
    /\ UNCHANGED <<runVars, catVars, cfgVars>>

\* summary.AddIssue(issue)
CallAddIssue ==
    /\ pc = "summary"
    /\ Len(addCalls) < MaxAdds
    /\ \E issue \in IssueTexts :
        /\ preflightSummary' = AddIssue(preflightSummary, issue)
        /\ addCalls' = Append(addCalls, [op |-> "AddIssue", issue |-> issue])
    /\ rendered' = <<>>
    /\ UNCHANGED <<runVars, catVars, cfgVars>>

\* mutant of CallGenerateMessage: rendering empties the accumulator
CallGenerateMessageConsumes ==
    /\ pc = "summary"
    /\ Len(rendered) < MaxRenders
    /\ rendered' = Append(rendered, GenerateMessage(preflightSummary))
    /\ preflightSummary' = newPreflightSummary
    /\ UNCHANGED <<addCalls, runVars, catVars, cfgVars>>

\* summary.GenerateMessage(): the text is returned, no field is assigned
CallGenerateMessage ==
    /\ pc = "summary"
    /\ Len(rendered) < MaxRenders
    /\ rendered' = Append(rendered, GenerateMessage(preflightSummary))
    /\ UNCHANGED <<preflightSummary, addCalls, runVars, catVars, cfgVars>>

NextSummary ==
    \/ CallAddCriticalIssue
    \/ CallAddBreakingIssue
    \/ CallAddIssue
    \/ CallGenerateMessage

SpecSummary == InitSummary /\ [][NextSummary]_vars

-----------------------------------------------------------------------------
(* Properties of preflightMessageSummary                                    *)

\* how many of the add calls made so far were calls of op
CallCount(op) == Cardinality({k \in 1..Len(addCalls) : addCalls[k].op = op})

\* the header of a report showing nc critical and nb breaking issues
HeaderOf(nc, nb) ==
    <<"C","R","D"," ","U","p","g","r","a","d","e"," ","S","a","f","e","t","y","\n","T","o","t","a","l",":"," ">> \o Itoa(nc + nb)
    \o (IF nc > 0 /\ nb > 0 THEN <<" ","(">> \o Itoa(nc) \o <<" ","c","r","i","t","i","c","a","l",","," ">> \o Itoa(nb) \o <<" ","b","r","e","a","k","i","n","g",")">>
        ELSE IF nc > 0 THEN <<" ","(">> \o Itoa(nc) \o <<" ","c","r","i","t","i","c","a","l",")">>
        ELSE IF nb > 0 THEN <<" ","(">> \o Itoa(nb) \o <<" ","b","r","e","a","k","i","n","g",")">>
        ELSE <<>>)

\* C13: the counts GenerateMessage shows are the numbers of AddCriticalIssue
\* and of AddBreakingIssue calls, the total is their sum, AddIssue calls change
\* none of them, and the clause of a tier is left out exactly when its count
\* is zero.
C13_TierCountLaw ==
    pc = "summary" =>
        /\ preflightSummary.CriticalCount = CallCount("AddCriticalIssue")
        /\ preflightSummary.BreakingCount = CallCount("AddBreakingIssue")
        /\ \A i \in 1..Len(rendered) :
              HasPrefix(rendered[i], HeaderOf(CallCount("AddCriticalIssue"), CallCount("AddBreakingIssue")) \o <<"\n">>)

\* a report rendered after critical and minor adds and no breaking add
C13_Witness ==
    /\ pc = "summary"
    /\ Len(rendered) > 0
    /\ CallCount("AddCriticalIssue") > 0
    /\ CallCount("AddBreakingIssue") = 0
    /\ CallCount("AddIssue") > 0

\* C14: every issue recorded by an add call, AddIssue included, is a bullet
\* line of every text GenerateMessage returns afterwards.
C14_MinorAlwaysListed ==
    pc = "summary" =>
        \A i \in 1..Len(rendered) : \A k \in 1..Len(addCalls) :
            Contains(rendered[i], <<"\n","-"," ">> \o addCalls[k].issue)

\* s ends with suffix
HasSuffix(s, suffix) == LitAt(s, Len(s) - Len(suffix) + 1, suffix)

\* the issues handed to the add calls, in call order
CallIssues == [k \in 1..Len(addCalls) |-> addCalls[k].issue]

\* C15: Issues holds the arguments of all add calls in call order, whatever
\* their tier, and a report with a non-zero total ends with one "- " bullet
\* per recorded issue in that order, with no bullet before them.
C15_InsertionOrder ==
    pc = "summary" =>
        /\ preflightSummary.Issues = CallIssues
        /\ \A i \in 1..Len(rendered) :
              CallCount("AddCriticalIssue") + CallCount("AddBreakingIssue") > 0 =>
                  LET list == <<"\n","I","s","s","u","e","s",":","\n">> \o Join(Bullets(CallIssues), <<"\n">>)
                  IN  /\ HasSuffix(rendered[i], list)
                      /\ ~Contains(SubSeq(rendered[i], 1, Len(rendered[i]) - Len(list)), <<"\n","-"," ">>)

\* a report rendered after a minor add that was followed by a critical add
C15_Witness ==
    /\ pc = "summary"
    /\ Len(rendered) > 0
    /\ \E j, k \in 1..Len(addCalls) :
          j < k /\ addCalls[j].op = "AddIssue" /\ addCalls[k].op = "AddCriticalIssue"
                /\ addCalls[j].issue # addCalls[k].issue

RECURSIVE Replay(_)
\* a fresh accumulator taken through the add calls
Replay(calls) ==
    IF Len(calls) = 0 THEN newPreflightSummary
    ELSE LET s == Replay(SubSeq(calls, 1, Len(calls) - 1))
             c == calls[Len(calls)]
         IN  CASE c.op = "AddCriticalIssue" -> AddCriticalIssue(s, c.issue)
               [] c.op = "AddBreakingIssue" -> AddBreakingIssue(s, c.issue)
               [] c.op = "AddIssue" -> AddIssue(s, c.issue)

\* C17: GenerateMessage leaves the accumulator as the add calls made it, the
\* texts of repeated calls with no add in between are the same, and they are
\* the text of any accumulator that received the same add calls.
C17_AccumulatorDeterminism ==
    pc = "summary" =>
        /\ preflightSummary = Replay(addCalls)
        /\ \A i, j \in 1..Len(rendered) : rendered[i] = rendered[j]
        /\ \A i \in 1..Len(rendered) : rendered[i] = GenerateMessage(Replay(addCalls))

\* an accumulator with a counted issue was rendered twice in a row
C17_Witness ==
    /\ pc = "summary"
    /\ Len(rendered) = 2
    /\ preflightSummary.CriticalCount + preflightSummary.BreakingCount > 0
    /\ Len(preflightSummary.Issues) >= 2

-----------------------------------------------------------------------------
(* The result of runPreflight as a whole                                    *)

\* the "upgrade blocked" errors of the Run calls that reported failures, in call order
BlockedErrors == [k \in 1..Len(FailedRuns) |-> NewError(BlockedPrefix(FailedRuns[k].name) \o RunSummary(FailedRuns[k]), <<>>, "")]

\* C18: when the loop went through every manifest object without a fatal
\* error, the returned error is nil exactly when no Run call reported failures;
\* otherwise it joins one "upgrade blocked" error per object with failures, in
\* manifest order.
C18_AggregatedDecision ==
    Completed =>
        /\ ret.isNil <=> Len(FailedRuns) = 0
        /\ ~ret.isNil =>
              LET blocked == BlockedErrors
              IN
              /\ ret.wraps = blocked
              /\ ret.msg = Join([k \in 1..Len(blocked) |-> blocked[k].msg], <<"\n">>)
              /\ \A j, k \in 1..Len(FailedRuns) : j < k => FailedRuns[j].idx < FailedRuns[k].idx
              /\ \A k \in 1..Len(FailedRuns) : FailedRuns[k].name = relObjects[FailedRuns[k].idx].name

\* a completed run in which two CRD objects of different names had failures
C18_Witness ==
    /\ Completed
    /\ Len(FailedRuns) = 2
    /\ FailedRuns[1].name # FailedRuns[2].name
    /\ RunSummary(FailedRuns[1]) # RunSummary(FailedRuns[2])

\* an object that is not of the CustomResourceDefinition kind
OtherKind(obj) == obj.gvk \notin {CRDKind, "apiextensions.k8s.io/v1beta1, Kind=CustomResourceDefinition"}

\* the objects of manifest m the loop does not skip
LookedUp(m) == SelectSeq(m, LAMBDA obj : obj.gvk = CRDKind)

\* manifest m without its i-th object
Without(m, i) == SubSeq(m, 1, i - 1) \o SubSeq(m, i + 1, Len(m))

\* what runPreflight can return, once its loop has begun, for manifest m when
\* the cluster answers as getCalls records and the errors blocked were
\* collected for the Run calls with failures
Outcomes(m, blocked) ==
    LET kept == LookedUp(m)
        n == Len(getCalls)
    IN  IF n > Len(kept) \/ \E k \in 1..n : k <= Len(kept) /\ getCalls[k].name # kept[k].name
            THEN {}
        ELSE IF n > 0 /\ FatalGet(getCalls[n])
            THEN {Wrap(<<"g","e","t","t","i","n","g"," ","e","x","i","s","t","i","n","g"," ","r","e","s","o","u","r","c","e"," ","f","o","r"," ","C","R","D"," ">> \o Quote(kept[n].name), getCalls[n].err)}
        ELSE IF n = Len(kept)
            THEN {ErrorsJoin(blocked)}
        ELSE {Wrap(<<"c","o","n","v","e","r","t","i","n","g"," ","o","b","j","e","c","t"," ">> \o Quote(kept[n + 1].name) \o <<" ","t","o"," ","u","n","s","t","r","u","c","t","u","r","e","d">>, ConvertError),
              Wrap(<<"c","o","n","v","e","r","t","i","n","g"," ","u","n","s","t","r","u","c","t","u","r","e","d"," ","t","o"," ","C","R","D"," ","o","b","j","e","c","t">>, ConvertError)}

\* C19: for an object that is not of the CustomResourceDefinition kind there
\* is no lookup, no Run call and no collected error (every collected error is
\* the one of a Run call with failures), and what the run returns is what the
\* run on the manifest without that object returns.
C19_OtherKindsIgnored ==
    /\ \A i \in 1..Len(relObjects) :
          OtherKind(relObjects[i]) =>
              /\ \A k \in 1..Len(getCalls) : getCalls[k].idx # i
              /\ \A r \in 1..Len(runCalls) : runCalls[r].idx # i
    /\ Len(validateErrors) = Len(FailedRuns)
    /\ \A k \in 1..Len(validateErrors) : HasPrefix(validateErrors[k].msg, BlockedPrefix(FailedRuns[k].name))
    /\ (pc = "done" /\ idx >= 1) =>
          /\ ret \in Outcomes(relObjects, validateErrors)
          /\ \A i \in 1..Len(relObjects) :
                OtherKind(relObjects[i]) => ret \in Outcomes(Without(relObjects, i), validateErrors)

\* a completed run over a manifest with an object of another kind and, after
\* it, a CRD that had failures
C19_Witness ==
    /\ Completed
    /\ Len(relObjects) = 2
    /\ OtherKind(relObjects[1])
    /\ Len(FailedRuns) = 1
    /\ ~ret.isNil

\* C20: with a nil release Install and Upgrade return nil and nothing is
\* parsed, no Runner is created and no CRD is looked up; with a non-nil release
\* both return what runPreflight returns for it.
C20_NilReleaseNoOp ==
    /\ pc # "idle" => entry \in {"Install", "Upgrade"}
    /\ (pc # "idle" /\ rel.isNil) =>
          /\ pc \in {"start", "done"}
          /\ ret = NilError
          /\ relObjects = <<>>
          /\ idx = 0
          /\ getCalls = <<>>
          /\ runCalls = <<>>
    /\ (pc = "done" /\ ~rel.isNil) =>
          IF idx = 0
          THEN ret \in {Wrap(<<"p","a","r","s","i","n","g"," ","r","e","l","e","a","s","e"," ">> \o Quote(rel.Name) \o <<" ","o","b","j","e","c","t","s">>, ParseError),
                        Wrap(<<"c","r","e","a","t","i","n","g"," ","C","R","D"," ","v","a","l","i","d","a","t","i","o","n"," ","r","u","n","n","e","r">>, RunnerError)}
          ELSE ret \in Outcomes(rel.Manifest, validateErrors)

\* Upgrade has returned for a nil release
C20_Witness == pc = "done" /\ rel.isNil /\ entry = "Upgrade"

-----------------------------------------------------------------------------
(* The walk of summarizeValidationFailures                                  *)

\* where the raw failure strings of a slice of results sit: <<check, error>>
SlicePositions(checks) ==
    UNION {{<<i, j>> : j \in 1..Len(checks[i].Errors)} : i \in 1..Len(checks)}

\* where the raw failure strings of a nested map sit: <<version, property, check, error>>
MapPositions(m) ==
    UNION {UNION {{<<v, p, q[1], q[2]>> : q \in SlicePositions(m[v][p])} : p \in DOMAIN m[v]} : v \in DOMAIN m}

\* how often x occurs in the sequence s
Occurrences(s, x) == Cardinality({i \in 1..Len(s) : s[i] = x})

\* the sequence s lists the messages of the function expected (position ->
\* message), each position once, in some order
Arranges(s, expected) ==
    /\ Len(s) = Cardinality(DOMAIN expected)
    /\ \A i \in 1..Len(s) :
          Occurrences(s, s[i]) = Cardinality({q \in DOMAIN expected : expected[q] = s[i]})

\* the Run call the loop has just made
JustRan == pc = "loop" /\ Len(runCalls) > 0 /\ runCalls[Len(runCalls)].idx = idx - 1

\* C21: the issues of the report of a Run call are the categorized raw failure
\* strings of its results, each exactly once: first those of the whole-object
\* results with the check name as context, then those of the same-version
\* results with context version.property.checkName, then those of the
\* served-version results with context "served version: checkName"; the text
\* of the collected error ends with these issues as bullet lines.
C21_ContextAndWalkOrder ==
    JustRan =>
        LET c == runCalls[Len(runCalls)]
            r == c.results
            issues == RunIssues(c)
            crd == SlicePositions(r.CRDValidation)
            same == MapPositions(r.SameVersionValidation)
            served == MapPositions(r.ServedVersionValidation)
            a == Cardinality(crd)
            b == Cardinality(same)
            crdMsg == [q \in crd |->
                categorizeValidationError(r.CRDValidation[q[1]].Errors[q[2]], r.CRDValidation[q[1]].Name)]
            sameMsg == [q \in same |->
                LET check == r.SameVersionValidation[q[1]][q[2]][q[3]]
                IN  categorizeValidationError(check.Errors[q[4]], q[1] \o <<".">> \o q[2] \o <<".">> \o check.Name)]
            servedMsg == [q \in served |->
                LET check == r.ServedVersionValidation[q[1]][q[2]][q[3]]
                IN  categorizeValidationError(check.Errors[q[4]], <<"s","e","r","v","e","d"," ","v","e","r","s","i","o","n",":"," ">> \o check.Name)]
        IN  /\ Len(issues) = a + b + Cardinality(served)
            /\ Arranges(SubSeq(issues, 1, a), crdMsg)
            /\ Arranges(SubSeq(issues, a + 1, a + b), sameMsg)
            /\ Arranges(SubSeq(issues, a + b + 1, Len(issues)), servedMsg)
            /\ Len(issues) > 0 =>
                  /\ Len(validateErrors) > 0
                  /\ HasSuffix(validateErrors[Len(validateErrors)].msg, <<"\n","I","s","s","u","e","s",":","\n">> \o Join(Bullets(issues), <<"\n">>))

\* a Run call whose results had failures of all three shapes, two of them
\* under different versions of the same-version map
C21_Witness ==
    /\ JustRan
    /\ LET r == runCalls[Len(runCalls)].results
       IN  /\ Cardinality(SlicePositions(r.CRDValidation)) >= 1
           /\ Cardinality({q[1] : q \in MapPositions(r.SameVersionValidation)}) >= 2
           /\ Cardinality(MapPositions(r.ServedVersionValidation)) >= 1
    /\ Len(validateErrors) > 0

-----------------------------------------------------------------------------
(* Bundle configuration (config.go): documents and errors                   *)

\* what a YAML/JSON document parses to: null, a string, a number, an array,
\* or an object whose fields map keys to such values
Null == [kind |-> "null"]

Str(s) == [kind |-> "string", str |-> s]

Num(n) == [kind |-> "number", num |-> n]

Arr == [kind |-> "array"]

Obj(fields) == [kind |-> "object", fields |-> fields]

NoFields == [k \in {} |-> Null]

Field(k, v) == [x \in {k} |-> v]

\* the bytes argument: nil, or a text
NilBytes == [isNil |-> TRUE]

Bytes(text) == [isNil |-> FALSE, text |-> text]

\* the error of sigs.k8s.io/yaml for a text that is not YAML
YamlSyntaxError ==
    Wrap(<<"e","r","r","o","r"," ","c","o","n","v","e","r","t","i","n","g"," ","Y","A","M","L"," ","t","o"," ","J","S","O","N">>, NewError(<<"y","a","m","l",":"," ","l","i","n","e"," ","1",":"," ","d","i","d"," ","n","o","t"," ","f","i","n","d"," ","e","x","p","e","c","t","e","d"," ","n","o","d","e"," ","c","o","n","t","e","n","t">>, <<>>, ""))

\* a *json.UnmarshalTypeError
UnmarshalTypeError(field, type, value) ==
    [isNil |-> FALSE, msg |-> <<"j","s","o","n",":"," ","c","a","n","n","o","t"," ","u","n","m","a","r","s","h","a","l"," ">> \o value \o <<" ","i","n","t","o"," ","G","o"," ","v","a","l","u","e"," ","o","f"," ","t","y","p","e"," ">> \o type,
     wraps |-> <<>>, reason |-> "UnmarshalTypeError", Field |-> field, Type |-> type, Value |-> value]

\* the configurations handed to UnmarshalConfig
ConfigTexts ==
    {<<"{","}">>, <<>>, <<"{">>, <<"[","]">>, <<"w","a","t","c","h","N","a","m","e","s","p","a","c","e",":"," ","o","l","m">>, <<"w","a","t","c","h","N","a","m","e","s","p","a","c","e",":"," ","d","e","v">>, <<"w","a","t","c","h","N","a","m","e","s","p","a","c","e",":"," ","5">>,
     <<"w","a","t","c","h","N","a","m","e","s","p","a","c","e",":"," ","n","u","l","l">>, <<"r","e","p","l","i","c","a","s",":"," ","3">>, <<"w","a","t","c","h","N","a","m","e","s","p","a","c","e",":"," ","5","\n","r","e","p","l","i","c","a","s",":"," ","3">>}

\* yaml.Unmarshal(text, &configData) with configData an interface{}: the
\* error, or the value the text stands for
YamlUnmarshal(text) ==
    CASE text = <<"{","}">> -> [err |-> NilError, value |-> Obj(NoFields)]
      [] text = <<>> -> [err |-> NilError, value |-> Null]
      [] text = <<"{">> -> [err |-> YamlSyntaxError, value |-> Null]
      [] text = <<"[","]">> -> [err |-> NilError, value |-> Arr]
      [] text = <<"w","a","t","c","h","N","a","m","e","s","p","a","c","e",":"," ","o","l","m">> -> [err |-> NilError, value |-> Obj(Field(<<"w","a","t","c","h","N","a","m","e","s","p","a","c","e">>, Str(<<"o","l","m">>)))]
      [] text = <<"w","a","t","c","h","N","a","m","e","s","p","a","c","e",":"," ","d","e","v">> -> [err |-> NilError, value |-> Obj(Field(<<"w","a","t","c","h","N","a","m","e","s","p","a","c","e">>, Str(<<"d","e","v">>)))]
      [] text = <<"w","a","t","c","h","N","a","m","e","s","p","a","c","e",":"," ","5">> -> [err |-> NilError, value |-> Obj(Field(<<"w","a","t","c","h","N","a","m","e","s","p","a","c","e">>, Num(5)))]
      [] text = <<"w","a","t","c","h","N","a","m","e","s","p","a","c","e",":"," ","n","u","l","l">> -> [err |-> NilError, value |-> Obj(Field(<<"w","a","t","c","h","N","a","m","e","s","p","a","c","e">>, Null))]
      [] text = <<"r","e","p","l","i","c","a","s",":"," ","3">> -> [err |-> NilError, value |-> Obj(Field(<<"r","e","p","l","i","c","a","s">>, Num(3)))]
      [] text = <<"w","a","t","c","h","N","a","m","e","s","p","a","c","e",":"," ","5","\n","r","e","p","l","i","c","a","s",":"," ","3">> ->
            [err |-> NilError,
             value |-> Obj([k \in {<<"w","a","t","c","h","N","a","m","e","s","p","a","c","e">>, <<"r","e","p","l","i","c","a","s">>} |-> IF k = <<"r","e","p","l","i","c","a","s">> THEN Num(3) ELSE Num(5)])]

\* a nil map[string]any
NilMap == [isNil |-> TRUE]

\* yaml.Unmarshal(text, &configData) with configData a map[string]any: null
\* leaves the map nil, an object fills it, anything else is a type error
YamlUnmarshalMap(text) ==
    LET parsed == YamlUnmarshal(text)
    IN  IF ~parsed.err.isNil THEN [err |-> parsed.err, data |-> NilMap]
        ELSE IF parsed.value.kind = "null" THEN [err |-> NilError, data |-> NilMap]
        ELSE IF parsed.value.kind = "object"
            THEN [err |-> NilError, data |-> [isNil |-> FALSE, fields |-> parsed.value.fields]]
        ELSE [err |-> UnmarshalTypeError(<<>>, <<"m","a","p","[","s","t","r","i","n","g","]","i","n","t","e","r","f","a","c","e"," ","{","}">>, parsed.value.kind), data |-> NilMap]

\* strings.Index: the 0-based position of the first substr in s, or -1
Index(s, substr) ==
    LET at == {i \in 1..(Len(s) - Len(substr) + 1) : LitAt(s, i, substr)}
    IN  IF at = {} THEN -1 ELSE (CHOOSE i \in at : \A j \in at : i <= j) - 1

\* s[from:] with a 0-based from
SliceFrom(s, from) == SubSeq(s, from + 1, Len(s))

\* s[:to] with a 0-based to
SliceTo(s, to) == SubSeq(s, 1, to)

RECURSIVE TrimSpace(_)
\* strings.TrimSpace
TrimSpace(s) ==
    IF Len(s) = 0 THEN s
    ELSE IF Head(s) \in {" ", "\t", "\n", "\r"} THEN TrimSpace(Tail(s))
    ELSE IF s[Len(s)] \in {" ", "\t", "\n", "\r"} THEN TrimSpace(SubSeq(s, 1, Len(s) - 1))
    ELSE s

\* the last element of strings.Split(s, ":")
LastPart(s) ==
    LET colons == {i \in 1..Len(s) : s[i] = ":"}
    IN  IF colons = {} THEN s ELSE SubSeq(s, (CHOOSE i \in colons : \A j \in colons : j <= i) + 1, Len(s))

RECURSIVE CoreError(_)
\* the error at the end of the errors.Unwrap chain
CoreError(err) == IF Len(err.wraps) = 0 THEN err ELSE CoreError(err.wraps[1])

formatUnmarshalError(err) ==
    IF err.reason = "UnmarshalTypeError"
        THEN IF err.Field = <<>> THEN NewError(<<"i","n","p","u","t"," ","i","s"," ","n","o","t"," ","a"," ","v","a","l","i","d"," ","J","S","O","N"," ","o","b","j","e","c","t">>, <<>>, "")
             ELSE NewError(<<"i","n","v","a","l","i","d"," ","v","a","l","u","e"," ","t","y","p","e"," ","f","o","r"," ","f","i","e","l","d"," ">> \o Quote(err.Field) \o <<":"," ","e","x","p","e","c","t","e","d"," ">> \o Quote(err.Type)
                           \o <<" ","b","u","t"," ","g","o","t"," ">> \o Quote(err.Value), <<>>, "")
    ELSE NewError(TrimSpace(LastPart(CoreError(err).msg)), <<>>, "")

-----------------------------------------------------------------------------
(* Bundle configuration: schema validation                                  *)

\* the schema argument: nil, or a JSON Schema of the kind a bundle provides:
\* the type asked of the document, the required keys, per property the
\* allowed types and the format, and whether other keys are allowed;
\* compiles tells whether the compiler accepts the schema
NilSchema == [isNil |-> TRUE]

Schema(type, required, properties, additionalProperties) ==
    [isNil |-> FALSE, compiles |-> TRUE, type |-> type, required |-> required, properties |-> properties,
     additionalProperties |-> additionalProperties]

formatOwnNamespaceInstallMode == <<"o","w","n","N","a","m","e","s","p","a","c","e","I","n","s","t","a","l","l","M","o","d","e">>

formatSingleNamespaceInstallMode == <<"s","i","n","g","l","e","N","a","m","e","s","p","a","c","e","I","n","s","t","a","l","l","M","o","d","e">>

WatchNamespace(types, format) == Field(<<"w","a","t","c","h","N","a","m","e","s","p","a","c","e">>, [types |-> types, format |-> format])

\* the schemas handed to UnmarshalConfig
Schemas ==
    { NilSchema,
      [isNil |-> FALSE, compiles |-> FALSE],
      Schema("", {}, NoFields, TRUE),
      Schema("object", {}, WatchNamespace(<<<<"s","t","r","i","n","g">>, <<"n","u","l","l">>>>, <<>>), FALSE),
      Schema("object", {<<"w","a","t","c","h","N","a","m","e","s","p","a","c","e">>}, WatchNamespace(<<<<"s","t","r","i","n","g">>>>, formatOwnNamespaceInstallMode), FALSE),
      Schema("object", {<<"w","a","t","c","h","N","a","m","e","s","p","a","c","e">>}, WatchNamespace(<<<<"s","t","r","i","n","g">>>>, formatSingleNamespaceInstallMode), FALSE) }

InstallNamespaces == {<<>>, <<"o","l","m">>, <<"d","e","v">>}

\* the Validate function registered for formatOwnNamespaceInstallMode
OwnNamespaceInstallMode(value, installNamespace) ==
    IF installNamespace = <<>> THEN NilError
    ELSE IF value.kind # "string" THEN NewError(<<"v","a","l","u","e"," ","m","u","s","t"," ","b","e"," ","a"," ","s","t","r","i","n","g">>, <<>>, "")
    ELSE IF value.str # installNamespace
        THEN NewError(<<"i","n","v","a","l","i","d"," ","v","a","l","u","e"," ">> \o Quote(value.str) \o <<":"," ","w","a","t","c","h","N","a","m","e","s","p","a","c","e"," ","m","u","s","t"," ","b","e"," ">> \o Quote(installNamespace)
                      \o <<" ","(","t","h","e"," ","n","a","m","e","s","p","a","c","e"," ","w","h","e","r","e"," ","t","h","e"," ","o","p","e","r","a","t","o","r"," ","i","s"," ","i","n","s","t","a","l","l","e","d",")"," ","b","e","c","a","u","s","e"," ","t","h","i","s"," ","o","p","e","r","a","t","o","r"," ","o","n","l","y"," ","s","u","p","p","o","r","t","s"," ","O","w","n","N","a","m","e","s","p","a","c","e"," ","i","n","s","t","a","l","l"," ","m","o","d","e">>, <<>>, "")
    ELSE NilError

\* mutant of SingleNamespaceInstallMode: the comparison is the one of the own-namespace format
SingleNamespaceAcceptsEqual(value, installNamespace) ==
    IF installNamespace = <<>> THEN NilError
    ELSE IF value.kind # "string" THEN NewError(<<"v","a","l","u","e"," ","m","u","s","t"," ","b","e"," ","a"," ","s","t","r","i","n","g">>, <<>>, "")
    ELSE IF value.str # installNamespace
        THEN NewError(<<"i","n","v","a","l","i","d"," ","v","a","l","u","e"," ">> \o Quote(value.str) \o <<":"," ","w","a","t","c","h","N","a","m","e","s","p","a","c","e"," ","m","u","s","t"," ","b","e"," ","d","i","f","f","e","r","e","n","t"," ","f","r","o","m"," ">> \o Quote(installNamespace)
                      \o <<" ","(","t","h","e"," ","i","n","s","t","a","l","l"," ","n","a","m","e","s","p","a","c","e",")"," ","b","e","c","a","u","s","e"," ","t","h","i","s"," ","o","p","e","r","a","t","o","r"," ","u","s","e","s"," ","S","i","n","g","l","e","N","a","m","e","s","p","a","c","e"," ","i","n","s","t","a","l","l"," ","m","o","d","e"," ","t","o"," ","w","a","t","c","h"," ","a"," ","d","i","f","f","e","r","e","n","t"," ","n","a","m","e","s","p","a","c","e">>, <<>>, "")
    ELSE NilError

\* the Validate function registered for formatSingleNamespaceInstallMode
SingleNamespaceInstallMode(value, installNamespace) ==
    IF installNamespace = <<>> THEN NilError
    ELSE IF value.kind # "string" THEN NewError(<<"v","a","l","u","e"," ","m","u","s","t"," ","b","e"," ","a"," ","s","t","r","i","n","g">>, <<>>, "")
    ELSE IF value.str = installNamespace
        THEN NewError(<<"i","n","v","a","l","i","d"," ","v","a","l","u","e"," ">> \o Quote(value.str) \o <<":"," ","w","a","t","c","h","N","a","m","e","s","p","a","c","e"," ","m","u","s","t"," ","b","e"," ","d","i","f","f","e","r","e","n","t"," ","f","r","o","m"," ">> \o Quote(installNamespace)
                      \o <<" ","(","t","h","e"," ","i","n","s","t","a","l","l"," ","n","a","m","e","s","p","a","c","e",")"," ","b","e","c","a","u","s","e"," ","t","h","i","s"," ","o","p","e","r","a","t","o","r"," ","u","s","e","s"," ","S","i","n","g","l","e","N","a","m","e","s","p","a","c","e"," ","i","n","s","t","a","l","l"," ","m","o","d","e"," ","t","o"," ","w","a","t","c","h"," ","a"," ","d","i","f","f","e","r","e","n","t"," ","n","a","m","e","s","p","a","c","e">>, <<>>, "")
    ELSE NilError

\* the registered format of that name applied to a value
FormatValidate(name, value, installNamespace) ==
    IF name = formatOwnNamespaceInstallMode THEN OwnNamespaceInstallMode(value, installNamespace)
    ELSE SingleNamespaceInstallMode(value, installNamespace)

\* how the validator names the type of a value
KindText(value) ==
    CASE value.kind = "null" -> <<"n","u","l","l">>
      [] value.kind = "string" -> <<"s","t","r","i","n","g">>
      [] value.kind = "number" -> <<"n","u","m","b","e","r">>
      [] value.kind = "array" -> <<"a","r","r","a","y">>
      [] value.kind = "object" -> <<"o","b","j","e","c","t">>

\* how the validator prints a value
ValueText(value) ==
    CASE value.kind = "string" -> value.str
      [] value.kind = "number" -> Itoa(value.num)
      [] OTHER -> KindText(value)

\* one cause of a jsonschema.ValidationError: the keyword path of its kind,
\* the location of the offending value, and its Error() text
Cause(keywords, location, text) ==
    [KeywordPath |-> keywords, InstanceLocation |-> location,
     msg |-> <<"a","t"," ","'">> \o (IF Len(location) = 0 THEN <<>> ELSE <<"/">> \o location[1]) \o <<"'",":"," ">> \o text]

\* the causes the compiled schema finds in a parsed document
SchemaCauses(value, schema, installNamespace) ==
    IF value.kind # "object"
        THEN IF schema.type = "object"
             THEN {Cause(<<"type">>, <<>>, <<"g","o","t"," ">> \o KindText(value) \o <<","," ","w","a","n","t"," ","o","b","j","e","c","t">>)}
             ELSE {}
    ELSE
        {Cause(<<"required">>, <<>>, <<"m","i","s","s","i","n","g"," ","p","r","o","p","e","r","t","y"," ","'">> \o k \o <<"'">>) : k \in schema.required \ DOMAIN value.fields}
        \cup {Cause(<<"additionalProperties">>, <<>>, <<"a","d","d","i","t","i","o","n","a","l"," ","p","r","o","p","e","r","t","i","e","s"," ","'">> \o k \o <<"'"," ","n","o","t"," ","a","l","l","o","w","e","d">>) :
                 k \in {x \in DOMAIN value.fields : ~schema.additionalProperties /\ x \notin DOMAIN schema.properties}}
        \cup {Cause(<<"type">>, <<k>>, <<"g","o","t"," ">> \o KindText(value.fields[k]) \o <<","," ","w","a","n","t"," ">> \o Join(schema.properties[k].types, <<" ","o","r"," ">>)) :
                 k \in {x \in DOMAIN value.fields \cap DOMAIN schema.properties :
                           \A i \in 1..Len(schema.properties[x].types) :
                               schema.properties[x].types[i] # KindText(value.fields[x])}}
        \cup {Cause(<<"format">>, <<k>>,
                    <<"'">> \o ValueText(value.fields[k]) \o <<"'"," ","i","s"," ","n","o","t"," ","v","a","l","i","d"," ">> \o schema.properties[k].format \o <<":"," ">>
                    \o FormatValidate(schema.properties[k].format, value.fields[k], installNamespace).msg) :
                 k \in {x \in DOMAIN value.fields \cap DOMAIN schema.properties :
                           /\ schema.properties[x].format # <<>>
                           /\ ~FormatValidate(schema.properties[x].format, value.fields[x], installNamespace).isNil}}

\* a *jsonschema.ValidationError with its causes in the order the validator lists them
ValidationError(causes) ==
    [isNil |-> FALSE, msg |-> <<"j","s","o","n","s","c","h","e","m","a"," ","v","a","l","i","d","a","t","i","o","n"," ","f","a","i","l","e","d"," ","w","i","t","h"," ","'","c","o","n","f","i","g","-","s","c","h","e","m","a",".","j","s","o","n","#","'">>, wraps |-> <<>>,
     reason |-> "ValidationError", Causes |-> causes]

-----------------------------------------------------------------------------
(* Bundle configuration: formatSchemaError, UnmarshalConfig                 *)

\* the text between marker and the next apostrophe of msg, or fieldName when
\* msg has no such text
QuotedAfter(msg, marker, fieldName) ==
    LET start == Index(msg, marker)
        remaining == SliceFrom(msg, start + Len(marker))
        endIdx == Index(remaining, <<"'">>)
    IN  IF start # -1 /\ endIdx # -1 THEN SliceTo(remaining, endIdx) ELSE fieldName

\* the message without what precedes its first ": "
StripLocation(msg) ==
    LET start == Index(msg, <<":"," ">>)
    IN  IF start # -1 THEN SliceFrom(msg, start + 2) ELSE msg

\* the cause formatSchemaError reports: the first additionalProperties cause,
\* or else the first cause
ChosenCause(causes) ==
    LET additional == {i \in 1..Len(causes) :
                          /\ Len(causes[i].KeywordPath) > 0
                          /\ causes[i].KeywordPath[Len(causes[i].KeywordPath)] = "additionalProperties"}
    IN  IF additional = {} THEN causes[1]
        ELSE causes[CHOOSE i \in additional : \A j \in additional : i <= j]

formatSchemaError(err) ==
    IF err.reason # "ValidationError" THEN err
    ELSE IF Len(err.Causes) = 0 THEN NewError(<<"c","o","n","f","i","g","u","r","a","t","i","o","n"," ","v","a","l","i","d","a","t","i","o","n"," ","f","a","i","l","e","d",":"," ">> \o err.msg, <<>>, "")
    ELSE
        LET cause == ChosenCause(err.Causes)
            keyword == cause.KeywordPath
            msg == cause.msg
            last == IF Len(keyword) > 0 THEN keyword[Len(keyword)] ELSE ""
            location == IF Len(cause.InstanceLocation) > 0 THEN cause.InstanceLocation[1] ELSE <<>>
            raw == NewError(<<"c","o","n","f","i","g","u","r","a","t","i","o","n"," ","v","a","l","i","d","a","t","i","o","n"," ","f","a","i","l","e","d",":"," ">> \o StripLocation(msg), <<>>, "")
        IN  IF last = "additionalProperties"
                THEN LET fieldName == QuotedAfter(msg, <<"a","d","d","i","t","i","o","n","a","l"," ","p","r","o","p","e","r","t","i","e","s"," ","'">>, location)
                     IN  IF fieldName # <<>> THEN NewError(<<"u","n","k","n","o","w","n"," ","f","i","e","l","d"," ">> \o Quote(fieldName), <<>>, "")
                         ELSE NewError(<<"u","n","k","n","o","w","n"," ","f","i","e","l","d">>, <<>>, "")
            ELSE IF last = "required"
                THEN LET fieldName == QuotedAfter(msg, <<"m","i","s","s","i","n","g"," ","p","r","o","p","e","r","t","y"," ","'">>, location)
                     IN  IF fieldName # <<>> THEN NewError(<<"r","e","q","u","i","r","e","d"," ","f","i","e","l","d"," ">> \o Quote(fieldName) \o <<" ","i","s"," ","m","i","s","s","i","n","g">>, <<>>, "")
                         ELSE NewError(<<"r","e","q","u","i","r","e","d"," ","f","i","e","l","d"," ","i","s"," ","m","i","s","s","i","n","g">>, <<>>, "")
            ELSE IF last = "type"
                THEN IF Contains(msg, <<"g","o","t"," ","n","u","l","l",","," ","w","a","n","t"," ","s","t","r","i","n","g">>)
                         THEN IF location # <<>> THEN NewError(<<"r","e","q","u","i","r","e","d"," ","f","i","e","l","d"," ">> \o Quote(location) \o <<" ","i","s"," ","m","i","s","s","i","n","g">>, <<>>, "")
                              ELSE NewError(<<"r","e","q","u","i","r","e","d"," ","f","i","e","l","d"," ","i","s"," ","m","i","s","s","i","n","g">>, <<>>, "")
                     ELSE IF Len(cause.InstanceLocation) = 0 /\ Contains(msg, <<"w","a","n","t"," ","o","b","j","e","c","t">>)
                         THEN NewError(<<"i","n","p","u","t"," ","i","s"," ","n","o","t"," ","a"," ","v","a","l","i","d"," ","J","S","O","N"," ","o","b","j","e","c","t">>, <<>>, "")
                     ELSE
                         LET gotIdx == Index(msg, <<"g","o","t"," ">>)
                             gotRest == SliceFrom(msg, gotIdx + 4)
                             gotType == IF gotIdx # -1 /\ Index(gotRest, <<",">>) # -1
                                        THEN SliceTo(gotRest, Index(gotRest, <<",">>)) ELSE <<>>
                             wantIdx == Index(msg, <<"w","a","n","t"," ">>)
                             wantType == IF wantIdx # -1 THEN TrimSpace(SliceFrom(msg, wantIdx + 5)) ELSE <<>>
                         IN  IF location # <<>> /\ gotType # <<>> /\ wantType # <<>>
                                 THEN NewError(<<"i","n","v","a","l","i","d"," ","v","a","l","u","e"," ","t","y","p","e"," ","f","o","r"," ","f","i","e","l","d"," ">> \o Quote(location) \o <<":"," ","e","x","p","e","c","t","e","d"," ">>
                                               \o Quote(wantType) \o <<" ","b","u","t"," ","g","o","t"," ">> \o Quote(gotType), <<>>, "")
                             ELSE raw
            ELSE IF last = "format"
                THEN IF location # <<>>
                         THEN NewError(<<"c","o","n","f","i","g","u","r","a","t","i","o","n"," ","v","a","l","i","d","a","t","i","o","n"," ","f","a","i","l","e","d"," ","a","t"," ","'","/">> \o location \o <<"'",":"," ">> \o StripLocation(msg), <<>>, "")
                     ELSE raw
            ELSE raw

\* the error of the compiler for a schema it does not accept
CompileError == NewError(<<"j","s","o","n","s","c","h","e","m","a",":"," ","i","n","v","a","l","i","d"," ","s","c","h","e","m","a">>, <<>>, "")

\* causes is the order in which the validator lists what it found
validateConfigWithSchema(configBytes, schema, installNamespace, causes) ==
    LET parsed == YamlUnmarshal(configBytes)
    IN  IF ~parsed.err.isNil THEN formatUnmarshalError(parsed.err)
        ELSE IF ~schema.compiles THEN Wrap(<<"f","a","i","l","e","d"," ","t","o"," ","c","o","m","p","i","l","e"," ","s","c","h","e","m","a">>, CompileError)
        ELSE IF Len(causes) > 0 THEN formatSchemaError(ValidationError(causes))
        ELSE NilError

\* the orders in which the validator may list the causes for these arguments
CauseOrders(bytes, schema, installNamespace) ==
    LET parsed == YamlUnmarshal(IF bytes.isNil THEN <<"{","}">> ELSE bytes.text)
    IN  IF schema.isNil \/ ~parsed.err.isNil \/ ~schema.compiles THEN {<<>>}
        ELSE Perms(SchemaCauses(parsed.value, schema, installNamespace))

newConfig(data) == [isNil |-> FALSE, data |-> data]

\* mutant of UnmarshalConfig: the result of the validation is not looked at
UnmarshalConfigUnchecked(bytes, schema, installNamespace, causes) ==
    LET text == IF bytes.isNil THEN <<"{","}">> ELSE bytes.text
        unmarshalled == YamlUnmarshalMap(text)
    IN  IF ~unmarshalled.err.isNil
            THEN [config |-> NilConfig,
                  err |-> Wrap(<<"e","r","r","o","r"," ","u","n","m","a","r","s","h","a","l","l","i","n","g"," ","c","o","n","f","i","g","u","r","a","t","i","o","n">>, formatUnmarshalError(unmarshalled.err))]
        ELSE [config |-> newConfig(unmarshalled.data), err |-> NilError]

\* the pair UnmarshalConfig returns
UnmarshalConfig(bytes, schema, installNamespace, causes) ==
    LET text == IF bytes.isNil THEN <<"{","}">> ELSE bytes.text
        invalid == IF schema.isNil THEN NilError
                   ELSE validateConfigWithSchema(text, schema, installNamespace, causes)
        unmarshalled == YamlUnmarshalMap(text)
    IN  IF ~invalid.isNil
            THEN [config |-> NilConfig, err |-> Wrap(<<"i","n","v","a","l","i","d"," ","c","o","n","f","i","g","u","r","a","t","i","o","n">>, invalid)]
        ELSE IF ~unmarshalled.err.isNil
            THEN [config |-> NilConfig,
                  err |-> Wrap(<<"e","r","r","o","r"," ","u","n","m","a","r","s","h","a","l","l","i","n","g"," ","c","o","n","f","i","g","u","r","a","t","i","o","n">>, formatUnmarshalError(unmarshalled.err))]
        ELSE [config |-> newConfig(unmarshalled.data), err |-> NilError]

-----------------------------------------------------------------------------
(* Bundle configuration: specification                                      *)

\* most causes in a validation error handed to formatSchemaError
MaxCauses == 2

\* causes of the kinds formatSchemaError tells apart, and one without keywords
Causes ==
    { Cause(<<"additionalProperties">>, <<>>, <<"a","d","d","i","t","i","o","n","a","l"," ","p","r","o","p","e","r","t","i","e","s"," ","'","r","e","p","l","i","c","a","s","'"," ","n","o","t"," ","a","l","l","o","w","e","d">>),
      Cause(<<"required">>, <<>>, <<"m","i","s","s","i","n","g"," ","p","r","o","p","e","r","t","y"," ","'","w","a","t","c","h","N","a","m","e","s","p","a","c","e","'">>),
      Cause(<<"type">>, <<<<"w","a","t","c","h","N","a","m","e","s","p","a","c","e">>>>, <<"g","o","t"," ","n","u","m","b","e","r",","," ","w","a","n","t"," ","s","t","r","i","n","g">>),
      Cause(<<"type">>, <<<<"w","a","t","c","h","N","a","m","e","s","p","a","c","e">>>>, <<"g","o","t"," ","n","u","l","l",","," ","w","a","n","t"," ","s","t","r","i","n","g">>),
      Cause(<<"type">>, <<>>, <<"g","o","t"," ","a","r","r","a","y",","," ","w","a","n","t"," ","o","b","j","e","c","t">>),
      Cause(<<"format">>, <<<<"w","a","t","c","h","N","a","m","e","s","p","a","c","e">>>>, <<"'","d","e","v","'"," ","i","s"," ","n","o","t"," ","v","a","l","i","d"," ","o","w","n","N","a","m","e","s","p","a","c","e","I","n","s","t","a","l","l","M","o","d","e",":"," ","i","n","v","a","l","i","d"," ","v","a","l","u","e"," ","\"","d","e","v","\"">>),
      Cause(<<>>, <<>>, <<"v","a","l","i","d","a","t","i","o","n"," ","f","a","i","l","e","d">>) }

\* the errors handed to formatSchemaError
SchemaErrors ==
    {NewError(<<"f","a","i","l","e","d"," ","t","o"," ","v","a","l","i","d","a","t","e">>, <<>>, "")}
    \cup {ValidationError(causes) : causes \in UNION {[1..n -> Causes] : n \in 0..MaxCauses}}

\* the values handed to the format validators
FormatValues == {Null, Num(5), Arr, Str(<<>>), Str(<<"o","l","m">>), Str(<<"d","e","v">>)}

InitConfig ==
    /\ pc = "config"
    /\ configCall = NoCall
    /\ config = NilConfig
    /\ configErr = NilError
    /\ entry = ""
    /\ rel = NilRelease
    /\ relObjects = <<>>
    /\ idx = 0
    /\ oldCrd = <<>>
    /\ validateErrors = <<>>
    /\ ret = NilError
    /\ getCalls = <<>>
    /\ runCalls = <<>>
    /\ errStr = <<>>
    /\ context = <<>>
    /\ message = <<>>
    /\ severity = ""
    /\ preflightSummary = newPreflightSummary
    /\ addCalls = <<>>
    /\ rendered = <<>>

\* UnmarshalConfig(bytes, schema, installNamespace)
CallUnmarshalConfig ==
    /\ pc = "config"
    /\ \E bytes \in {NilBytes} \cup {Bytes(text) : text \in ConfigTexts} :
       \E schema \in Schemas :
       \E installNamespace \in InstallNamespaces :
       \E causes \in CauseOrders(bytes, schema, installNamespace) :
        LET returned == UnmarshalConfig(bytes, schema, installNamespace, causes)
        IN  /\ configCall' = [op |-> "UnmarshalConfig", bytes |-> bytes, schema |-> schema,
                              installNamespace |-> installNamespace, causes |-> causes]
            /\ config' = returned.config
            /\ configErr' = returned.err
    /\ pc' = "called"
    /\ UNCHANGED <<entry, rel, relObjects, idx, oldCrd, validateErrors, ret, getCalls, runCalls, catVars, sumVars>>

\* the validator calls one of the two registered formats on a value
CallFormat ==
    /\ pc = "config"
    /\ \E name \in {formatOwnNamespaceInstallMode, formatSingleNamespaceInstallMode} :
       \E value \in FormatValues :
       \E installNamespace \in InstallNamespaces :
        /\ configCall' = [op |-> "Format", name |-> name, value |-> value, installNamespace |-> installNamespace]
        /\ configErr' = FormatValidate(name, value, installNamespace)
    /\ config' = NilConfig
    /\ pc' = "called"
    /\ UNCHANGED <<entry, rel, relObjects, idx, oldCrd, validateErrors, ret, getCalls, runCalls, catVars, sumVars>>

\* formatSchemaError(err)
CallFormatSchemaError ==
    /\ pc = "config"
    /\ \E err \in SchemaErrors :
        /\ configCall' = [op |-> "formatSchemaError", err |-> err]
        /\ configErr' = formatSchemaError(err)
    /\ config' = NilConfig
    /\ pc' = "called"
    /\ UNCHANGED <<entry, rel, relObjects, idx, oldCrd, validateErrors, ret, getCalls, runCalls, catVars, sumVars>>

NextConfig == CallUnmarshalConfig \/ CallFormat \/ CallFormatSchemaError

SpecConfig == InitConfig /\ [][NextConfig]_vars

\* the bytes parse, the schema compiles and the validator finds no cause
Satisfies(bytes, schema, installNamespace) ==
    LET parsed == YamlUnmarshal(IF bytes.isNil THEN <<"{","}">> ELSE bytes.text)
    IN  /\ parsed.err.isNil
        /\ schema.compiles
        /\ SchemaCauses(parsed.value, schema, installNamespace) = {}

\* C22: of the Config and the error UnmarshalConfig returns exactly one is
\* non-nil; when a schema is given and the bytes (nil bytes standing for {})
\* do not satisfy it, the Config is nil and the error begins with "invalid
\* configuration: "; a Config is returned only when no schema was given or the
\* bytes satisfy it.
C22_ConfigOnlyWhenValid ==
    configCall.op = "UnmarshalConfig" =>
        LET valid == Satisfies(configCall.bytes, configCall.schema, configCall.installNamespace)
        IN  /\ config.isNil # configErr.isNil
            /\ (~configCall.schema.isNil /\ ~valid) =>
                  /\ config.isNil
                  /\ HasPrefix(configErr.msg, <<"i","n","v","a","l","i","d"," ","c","o","n","f","i","g","u","r","a","t","i","o","n",":"," ">>)
            /\ ~config.isNil => (configCall.schema.isNil \/ valid)

\* nil bytes were checked against a schema that requires watchNamespace
C22_Witness ==
    /\ configCall.op = "UnmarshalConfig"
    /\ configCall.bytes.isNil
    /\ ~configCall.schema.isNil
    /\ config.isNil
    /\ configErr.msg = <<"i","n","v","a","l","i","d"," ","c","o","n","f","i","g","u","r","a","t","i","o","n",":"," ","r","e","q","u","i","r","e","d"," ","f","i","e","l","d"," ","\"","w","a","t","c","h","N","a","m","e","s","p","a","c","e","\""," ","i","s"," ","m","i","s","s","i","n","g">>

\* C23: with a non-empty install namespace the ownNamespaceInstallMode format
\* accepts a string exactly when it equals the install namespace and the
\* singleNamespaceInstallMode format exactly when it differs, so no string
\* passes both, and both reject a value that is not a string; with an empty
\* install namespace both accept every value.
C23_InstallModeFormats ==
    configCall.op = "Format" =>
        LET value == configCall.value
            installNamespace == configCall.installNamespace
        IN  /\ installNamespace = <<>> => configErr.isNil
            /\ (installNamespace # <<>> /\ value.kind # "string") => ~configErr.isNil
            /\ (installNamespace # <<>> /\ value.kind = "string") =>
                  /\ configCall.name = formatOwnNamespaceInstallMode =>
                        (configErr.isNil <=> value.str = installNamespace)
                  /\ configCall.name = formatSingleNamespaceInstallMode =>
                        (configErr.isNil <=> value.str # installNamespace)
                  /\ ~(/\ OwnNamespaceInstallMode(value, installNamespace).isNil
                       /\ SingleNamespaceInstallMode(value, installNamespace).isNil)

\* the single-namespace format accepted a namespace other than the install namespace
C23_Witness ==
    /\ configCall.op = "Format"
    /\ configCall.name = formatSingleNamespaceInstallMode
    /\ configCall.installNamespace = <<"o","l","m">>
    /\ configCall.value = Str(<<"d","e","v">>)
    /\ configErr.isNil

\* the keyword a cause is of
KeywordOf(cause) == IF Len(cause.KeywordPath) > 0 THEN cause.KeywordPath[Len(cause.KeywordPath)] ELSE ""

\* what formatSchemaError makes of a validation error with the one cause
Alone(cause) == formatSchemaError(ValidationError(<<cause>>))

\* C25: of the causes of a validation error, formatSchemaError reports an
\* additionalProperties cause when there is one, and otherwise, when the
\* causes are required and type causes, a required cause when there is one,
\* whatever the order of the causes.
C25_CausePriority ==
    (configCall.op = "formatSchemaError" /\ configCall.err.reason = "ValidationError") =>
        LET causes == configCall.err.Causes
            of(keyword) == {causes[i] : i \in {j \in 1..Len(causes) : KeywordOf(causes[j]) = keyword}}
        IN  /\ of("additionalProperties") # {} =>
                  configErr \in {Alone(cause) : cause \in of("additionalProperties")}
            /\ (/\ of("additionalProperties") = {}
                /\ of("required") # {}
                /\ \A i \in 1..Len(causes) : KeywordOf(causes[i]) \in {"required", "type"}) =>
                  configErr \in {Alone(cause) : cause \in of("required")}

-----------------------------------------------------------------------------
(* The rule table of categorizeValidationError                              *)

\* the rules in the order categorizeValidationError tries them
RuleTable ==
    <<"stored", "scope", "kwVersion", "kwRequired", "kwRemoval", "enum", "kwEnum", "default",
      "kwDefaultAdded", "kwDefaultRemoved", "type", "kwType", "min", "max", "kwConstraint", "generic">>

\* rule applies to the lower-cased text l
RuleApplies(rule, l) ==
    CASE rule \in {"stored", "scope", "enum", "default", "type", "min", "max"} -> PatternMatch(rule, l) # <<>>
      [] rule = "kwVersion" -> KwVersionRemoved(l)
      [] rule = "kwRequired" -> KwRequired(l)
      [] rule = "kwRemoval" -> KwRemoval(l)
      [] rule = "kwEnum" -> KwEnum(l)
      [] rule = "kwDefaultAdded" -> KwDefaultAdded(l)
      [] rule = "kwDefaultRemoved" -> KwDefaultRemoved(l)
      [] rule = "kwType" -> KwType(l)
      [] rule = "kwConstraint" -> KwConstraint(l)
      [] rule = "generic" -> TRUE

\* the label of the message a rule gives
RuleLabel(rule) ==
    CASE rule \in {"stored", "scope", "enum", "default", "type", "min", "max"} -> PatternLabel(rule)
      [] rule = "kwVersion" -> LabelVersion
      [] rule = "kwRequired" -> LabelRequired
      [] rule = "kwRemoval" -> LabelRemoval
      [] rule = "kwEnum" -> LabelEnumAdded
      [] rule = "kwDefaultAdded" -> LabelDefaultAdded
      [] rule = "kwDefaultRemoved" -> LabelDefaultRemoved
      [] rule = "kwType" -> LabelType
      [] rule = "kwConstraint" -> LabelConstraint
      [] rule = "generic" -> LabelGeneric

\* how the explanation of the message of a rule begins, for the lower-cased text l
RuleDetail(rule, l) ==
    CASE rule = "stored" -> <<"s","t","o","r","e","d"," ","v","e","r","s","i","o","n"," ","r","e","m","o","v","e","d"," ">> \o Rendering(rule, PatternMatch(rule, l))
      [] rule = "scope" -> <<"s","c","o","p","e"," ">> \o Rendering(rule, PatternMatch(rule, l))
      [] rule \in {"enum", "default", "type", "min", "max"} -> Rendering(rule, PatternMatch(rule, l))
      [] rule = "kwVersion" -> <<"s","t","o","r","e","d","/","s","e","r","v","e","d"," ","v","e","r","s","i","o","n"," ","r","e","m","o","v","e","d">>
      [] rule = "kwType" -> <<"T","h","e"," ","O","L","M"," ","p","r","e","f","l","i","g","h","t"," ","b","l","o","c","k","e","d">>
      [] OTHER -> <<>>

\* the first rule of the table that applies to l
FirstRule(l) == RuleTable[CHOOSE i \in 1..Len(RuleTable) :
                              /\ RuleApplies(RuleTable[i], l)
                              /\ \A j \in 1..(i - 1) : ~RuleApplies(RuleTable[j], l)]

\* C24: the message of categorizeValidationError is the one of the first rule
\* of the table that applies to the lower-cased raw failure: the label of that
\* rule, the context, and the explanation of that rule with the values its
\* pattern captured; a later rule is used only when no earlier rule applies.
C24_FirstMatchRuleTable ==
    pc = "categorized" =>
        LET l == ToLower(errStr)
            rule == FirstRule(l)
        IN  HasPrefix(message, RuleLabel(rule) \o <<" ","(">> \o context \o <<")",":"," ">> \o RuleDetail(rule, l))

\* a keyword rule won over a pattern placed after it in the table, both applying
C24_Witness ==
    /\ pc = "categorized"
    /\ FirstRule(ToLower(errStr)) = "kwRemoval"
    /\ RuleApplies("type", ToLower(errStr))
    /\ HasPrefix(message, LabelRemoval)

-----------------------------------------------------------------------------
(* The report embedded in an "upgrade blocked" error                        *)

\* most raw failures in the results of one Run call
MaxFailures == 4

\* how often the text sub occurs in s
CountOf(s, sub) == Cardinality({i \in 1..(Len(s) - Len(sub) + 1) : LitAt(s, i, sub)})

\* the head of a report of total issues: n[1] critical, n[2] breaking, n[3] other
ReportHead(n) ==
    <<"C","R","D"," ","U","p","g","r","a","d","e"," ","S","a","f","e","t","y","\n","T","o","t","a","l",":"," ">> \o Itoa(n[1] + n[2] + n[3]) \o <<" ","(">>
    \o Join(SelectSeq(<<IF n[1] > 0 THEN Itoa(n[1]) \o <<" ","c","r","i","t","i","c","a","l">> ELSE <<>>,
                        IF n[2] > 0 THEN Itoa(n[2]) \o <<" ","b","r","e","a","k","i","n","g">> ELSE <<>>,
                        IF n[3] > 0 THEN Itoa(n[3]) \o <<" ","o","t","h","e","r">> ELSE <<>>>>, LAMBDA part : part # <<>>), <<","," ">>)
    \o <<")","\n","I","s","s","u","e","s",":","\n","-"," ">>

FailureCount(results) ==
    Cardinality(SlicePositions(results.CRDValidation))
    + Cardinality(MapPositions(results.SameVersionValidation))
    + Cardinality(MapPositions(results.ServedVersionValidation))

TableLabels ==
    { LabelRemoval, LabelRequired, LabelVersion, LabelType, LabelEnumTight, LabelEnumAdded,
      LabelDefaultChanged, LabelDefaultAdded, LabelDefaultRemoved, LabelMin, LabelMax, LabelConstraint }

\* C28: for every label of the label-prefix table there is a raw failure
\* string for which categorizeValidationError returns a message with that
\* label.
C28_EveryLabelReachable ==
    \A label \in TableLabels :
        \E e \in RawFailures : HasPrefix(categorizeValidationError(e, context), label \o <<" ","(">>)

====
